---- MODULE Spec2Model ----
(***************************************************************************)
(* Model of the seating-layout editor (TableManager) and of the event-day  *)
(* check-in view (EventCheckIn) of event-guest-guardian.                   *)
(*                                                                         *)
(* The repository holds three snapshots of the editor:                     *)
(*   "pages"  src/src/pages/TableManager.tsx        (1200x800 canvas)      *)
(*   "retry"  src/unnamed/part_002, lines 1-1309    (2000x1400 canvas,     *)
(*            retrying persistence, debounced drag save)                   *)
(*   "later"  src/unnamed/part_002, lines 1310-2365 (functional updates)   *)
(* The variable rev fixes the snapshot a behaviour runs; every handler is  *)
(* translated per snapshot.  The check-in view has two snapshots:          *)
(*   "pages"     src/src/pages/EventCheckIn.tsx                            *)
(*   "part_003"  src/unnamed/part_003  (validating handlers)               *)
(* and checkinRev fixes the one a behaviour runs.                          *)
(*                                                                         *)
(* Numbers that JavaScript computes by division (seat angles, positions    *)
(* divided by the zoom factor) are exact rationals <<n, d>> in lowest      *)
(* terms with d > 0.  Strings are sequences of one-character strings, so   *)
(* that toLowerCase, trim and includes are computed, not assumed.          *)
(***************************************************************************)
EXTENDS Integers, Sequences, FiniteSets, TLC

VARIABLES
    rev,                \* which snapshot of TableManager runs
    loaded,             \* has the loadTables effect completed
    tables,             \* useState<Table[]>
    selectedTable,      \* useState<string | null>
    selectedSeat,       \* useState<{tableId, seatId} | null>
    zoom,               \* useState(1), kept in tenths
    draggedTable,       \* useState<string | null>
    dragOffset,         \* useState({x: 0, y: 0})
    pendingDragTable,   \* useState<string | null>   (pages, retry)
    dragStartPosition,  \* useState<{x, y} | null>   (pages, retry)
    exported,           \* the text of the last table-layout.json download
    follow,             \* "state": the run follows the component's state only;
                        \* "storage": it follows the store and the cache as well
    store,              \* rows of table_configurations and seat_assignments
    localStorage,       \* the item 'tableSeatLayout'               (pages, retry)
    saveTimeout,        \* saveTimeoutRef: the debounced save not yet fired
    writes,             \* calls of the save functions that have not returned
    saveStatus,         \* useState<'saved' | 'saving' | 'error' | 'idle'>
    statusTimers,       \* pending setTimeout(() => setSaveStatus('idle'))
    pendingSaves,       \* useState<Set<string>>                    (retry)
    notice,             \* the toasts of the editor's last step that showed any
    checkinRev,         \* which snapshot of EventCheckIn runs
    guest_checkins,     \* rows of public.guest_checkins, oldest first
    checkins,           \* useState<CheckIn[]>, as loadCheckins left it
    processingGuest,    \* useState<string | null>   (part_003)
    calls,              \* handleCheckIn / handleCheckOut calls awaiting the store
    toast,              \* title of the last toast shown by the check-in view
    event,              \* the last UI event handled and what it was given
    used                \* how many events of each kind the run has spent

editorVars == <<rev, loaded, tables, selectedTable, selectedSeat, zoom,
                draggedTable, dragOffset, pendingDragTable, dragStartPosition>>

checkinVars == <<checkinRev, guest_checkins, checkins, processingGuest, calls, toast>>

storageVars == <<follow, store, localStorage, saveTimeout, writes, saveStatus,
                 statusTimers, pendingSaves, notice>>

vars == <<editorVars, exported, storageVars, checkinVars, event, used>>

-----------------------------------------------------------------------------
(* Bounds of the model *)

MaxSeatOps == 3
MaxEdits == 1
MaxMoves == 3
MaxZooms == 1
MaxFiles == 2
MaxClicks == 4
MaxAssignEdits == 3
MaxFailures == 3
MaxLoadErrors == 1
MaxWrites == 2

-----------------------------------------------------------------------------
(* Exact rational arithmetic for JavaScript numbers *)

Abs(n) == IF n < 0 THEN -n ELSE n

RECURSIVE GCD(_, _)
GCD(a, b) == IF b = 0 THEN a ELSE GCD(b, a % b)

\* n / d in lowest terms, d > 0
Frac(n, d) ==
    LET g == GCD(Abs(n), d)
    IN  IF n = 0 THEN <<0, 1>> ELSE <<n \div g, d \div g>>

Int2R(n) == <<n, 1>>
RSub(a, b) == Frac(a[1] * b[2] - b[1] * a[2], a[2] * b[2])
RLe(a, b) == a[1] * b[2] <= b[1] * a[2]
RLt(a, b) == a[1] * b[2] < b[1] * a[2]
\* Math.max / Math.min on two finite numbers
MathMax(a, b) == IF RLe(a, b) THEN b ELSE a
MathMin(a, b) == IF RLe(a, b) THEN a ELSE b

-----------------------------------------------------------------------------
(* JavaScript values *)

\* an absent or undefined optional string (guestName?, tag?, note?)
Undef == <<"undefined">>
\* null for the string | null state hooks
Null == <<"null">>

\* number: a finite integer, -Infinity (Math.max of nothing) or null
Num(n) == [k |-> "int", v |-> n]
NegInfinity == [k |-> "-Infinity", v |-> 0]
NumNull == [k |-> "null", v |-> 0]

\* `table-${number}`, `seat-${number}-${i}`, `Table ${number}`
TableIdOf(number) == <<"table-", number>>
SeatIdOf(number, i) == <<"seat-", number, Num(i)>>
LabelOf(number) == <<"Table ", number>>

-----------------------------------------------------------------------------
(* Table / Seat data model *)

MaxSeats == 14
DefaultSeatCount == 10

Seat(id, angle, guestName, tag, note) ==
    [id |-> id, angle |-> angle, guestName |-> guestName, tag |-> tag, note |-> note]

Table(id, number, label, x, y, seats) ==
    [id |-> id, number |-> number, label |-> label, x |-> x, y |-> y, seats |-> seats]

\* seat i of n sits at (i * 360) / n
EvenAngle(i, n) == Frac(i * 360, n)

createTable(number, x, y) ==
    Table(TableIdOf(number), number, LabelOf(number), x, y,
          [k \in 1..DefaultSeatCount |->
              Seat(SeatIdOf(number, k - 1), EvenAngle(k - 1, DefaultSeatCount),
                   Undef, Undef, Undef)])

createTableLater(number, label, x, y, seatCount) ==
    Table(TableIdOf(number), number, label, x, y,
          [k \in 1..seatCount |->
              Seat(SeatIdOf(number, k - 1), EvenAngle(k - 1, seatCount),
                   Undef, Undef, Undef)])

\* tables.find(t => t.id === tableId): index of the first match, 0 if none
FindTable(ts, tableId) ==
    IF \E k \in DOMAIN ts : ts[k].id = tableId
    THEN CHOOSE k \in DOMAIN ts :
            /\ ts[k].id = tableId
            /\ \A j \in 1..(k - 1) : ts[j].id # tableId
    ELSE 0

\* the angles left as they were
RedistributeSkipped(seats) == seats

\* newSeats.forEach((seat, index) => seat.angle = (index * 360) / newSeats.length)
Redistribute(seats) ==
    [k \in DOMAIN seats |-> [seats[k] EXCEPT !.angle = EvenAngle(k - 1, Len(seats))]]

\* array.slice(0, -1)
DropLast(seq) == SubSeq(seq, 1, Len(seq) - 1)

-----------------------------------------------------------------------------
(* addSeat / removeSeat *)

addSeat(ts, tableId) ==
    [k \in DOMAIN ts |->
        IF ts[k].id = tableId /\ Len(ts[k].seats) < MaxSeats
        THEN LET newSeatId == SeatIdOf(ts[k].number, Len(ts[k].seats))
                 pushed == Append(ts[k].seats,
                                  Seat(newSeatId,
                                       EvenAngle(Len(ts[k].seats), Len(ts[k].seats) + 1),
                                       Undef, Undef, Undef))
             IN  [ts[k] EXCEPT !.seats = Redistribute(pushed)]
        ELSE ts[k]]

addSeatLater(ts, tableId) ==
    [k \in DOMAIN ts |->
        IF ts[k].id = tableId
        THEN LET newSeatIndex == Len(ts[k].seats)
                 newSeat == Seat(SeatIdOf(ts[k].number, newSeatIndex),
                                 EvenAngle(newSeatIndex, Len(ts[k].seats) + 1),
                                 Undef, Undef, Undef)
                 appended == Append(ts[k].seats, newSeat)
             IN  [ts[k] EXCEPT !.seats =
                    [i \in DOMAIN appended |->
                        [appended[i] EXCEPT
                            !.angle = EvenAngle(i - 1, Len(ts[k].seats) + 1)]]]
        ELSE ts[k]]

removeSeat(ts, tableId) ==
    [k \in DOMAIN ts |->
        IF ts[k].id = tableId /\ Len(ts[k].seats) > 1
        THEN [ts[k] EXCEPT !.seats = Redistribute(DropLast(ts[k].seats))]
        ELSE ts[k]]

removeSeatLater(ts, tableId) ==
    [k \in DOMAIN ts |->
        IF ts[k].id = tableId /\ Len(ts[k].seats) > 1
        THEN LET kept == DropLast(ts[k].seats)
             IN  [ts[k] EXCEPT !.seats =
                    [i \in DOMAIN kept |->
                        [kept[i] EXCEPT
                            !.angle = EvenAngle(i - 1, Len(ts[k].seats) - 1)]]]
        ELSE ts[k]]

-----------------------------------------------------------------------------
(* Strings the model uses *)

JaneDoe == <<"J", "a", "n", "e", " ", "D", "o", "e">>
JANET == <<"J", "A", "N", "E", "T">>
Bob == <<"B", "o", "b">>
Vip == <<"V", "I", "P">>
EmptyStr == <<>>

-----------------------------------------------------------------------------
(* loadTables: rows of table_configurations joined with seat_assignments *)

Config(number, x, y, seatCount, assignments) ==
    [table_number |-> number, label |-> LabelOf(Num(number)),
     x |-> Int2R(x), y |-> Int2R(y),
     seat_count |-> seatCount, seat_assignments |-> assignments]

Assignment(seatIndex, guestName, tag, note) ==
    [seat_index |-> seatIndex, guest_name |-> guestName, tag |-> tag, note |-> note]

\* the contents of the store a page load may find (ordered by table_number)
StoreContents ==
    { <<Config(1, 150, 250, 14, <<Assignment(0, JaneDoe, Vip, Null)>>)>>,
      <<Config(1, 150, 250, 1, <<>>),
        Config(2, 1950, 650, 10, <<Assignment(3, JANET, Null, Null),
                                   Assignment(0, Bob, Null, EmptyStr)>>)>>,
      <<Config(1, 600, 400, 2, <<Assignment(1, Bob, Null, Null)>>),
        Config(2, 700, 400, 13, <<Assignment(12, JaneDoe, Null, Null)>>)>> }

\* Number(config.x) of a NUMERIC column
Number(v) == Frac(v[1], v[2])

\* value || undefined for a nullable text column
OrUndefined(v) == IF v = Null \/ v = EmptyStr THEN Undef ELSE v

\* config.seat_assignments.find(a => a.seat_index === i)
FindAssignment(assignments, i) ==
    IF \E k \in DOMAIN assignments : assignments[k].seat_index = i
    THEN CHOOSE k \in DOMAIN assignments :
            /\ assignments[k].seat_index = i
            /\ \A j \in 1..(k - 1) : assignments[j].seat_index # i
    ELSE 0

loadedTables(tableConfigs) ==
    [c \in DOMAIN tableConfigs |->
        LET config == tableConfigs[c]
            number == Num(config.table_number)
        IN  Table(TableIdOf(number), number, config.label,
                  Number(config.x), Number(config.y),
                  [k \in 1..config.seat_count |->
                      LET a == FindAssignment(config.seat_assignments, k - 1)
                      IN  Seat(SeatIdOf(number, k - 1),
                               EvenAngle(k - 1, config.seat_count),
                               IF a = 0 THEN Undef
                               ELSE OrUndefined(config.seat_assignments[a].guest_name),
                               IF a = 0 THEN Undef
                               ELSE OrUndefined(config.seat_assignments[a].tag),
                               IF a = 0 THEN Undef
                               ELSE OrUndefined(config.seat_assignments[a].note))])]

\* initializeDefaultTables: tables 1-24 in three rows
initializeDefaultTables ==
    [i \in 1..24 |->
        IF i <= 10 THEN createTable(Num(i), Frac(150 * 9 + (i - 1) * 1700, 9), Int2R(250))
        ELSE IF i <= 20
             THEN createTable(Num(i), Frac(150 * 9 + (i - 11) * 1700, 9), Int2R(650))
             ELSE createTable(Num(i), Frac(150 * 8 + 2 * 1700 * (i - 21) + 1700, 8),
                              Int2R(1050))]

initializeDefaultTablesPages ==
    [i \in 1..24 |->
        IF i <= 10 THEN createTable(Num(i), Frac(i * 1200, 11), Int2R(150))
        ELSE IF i <= 20 THEN createTable(Num(i), Frac((i - 10) * 1200, 11), Int2R(350))
             ELSE createTable(Num(i), Frac((i - 20) * 1200, 5), Int2R(550))]

\* 1000 * cos(18 i degrees), rounded, i = 0..19
Cos18 == <<1000, 951, 809, 588, 309, 0, -309, -588, -809, -951,
           -1000, -951, -809, -588, -309, 0, 309, 588, 809, 951>>
Sin18 == <<0, 309, 588, 809, 951, 1000, 951, 809, 588, 309,
           0, -309, -588, -809, -951, -1000, -951, -809, -588, -309>>

\* twenty tables on a circle of radius 200 around (400, 300)
createDefaultLayout ==
    [i \in 1..20 |->
        createTableLater(Num(i), LabelOf(Num(i)),
                         Frac(400 * 1000 + Cos18[i] * 200, 1000),
                         Frac(300 * 1000 + Sin18[i] * 200, 1000), 10)]

DefaultLayout(r) ==
    IF r = "later" THEN createDefaultLayout
    ELSE IF r = "pages" THEN initializeDefaultTablesPages
    ELSE initializeDefaultTables

-----------------------------------------------------------------------------
(* addTable / deleteTable / assignSeat *)

\* a number as Math.max and + see it: null counts as 0
NumLe(a, b) ==
    IF a.k = "-Infinity" THEN TRUE
    ELSE IF b.k = "-Infinity" THEN FALSE
    ELSE a.v <= b.v

\* Math.max(...numbers): -Infinity for no argument, never null
MathMaxOf(numbers) ==
    IF numbers = {} THEN NegInfinity
    ELSE LET m == CHOOSE a \in numbers : \A b \in numbers : NumLe(b, a)
         IN  IF m.k = "null" THEN Num(0) ELSE m

\* n + 1
PlusOne(n) == IF n.k = "-Infinity" THEN NegInfinity ELSE Num(n.v + 1)

addTable(ts) ==
    LET maxNumber == MathMaxOf({ts[k].number : k \in DOMAIN ts})
        newTable == createTable(PlusOne(maxNumber), Int2R(600), Int2R(400))
    IN  Append(ts, newTable)

\* 400 + Math.random() * 200 - 100 and 300 + Math.random() * 200 - 100
RandomPlacements == {<<300, 200>>, <<499, 399>>}

addTableLater(ts, at) ==
    LET maxTableNumber == MathMaxOf({ts[k].number : k \in DOMAIN ts} \cup {Num(0)})
        newTable == createTableLater(PlusOne(maxTableNumber),
                                     LabelOf(PlusOne(maxTableNumber)),
                                     Int2R(at[1]), Int2R(at[2]), DefaultSeatCount)
    IN  Append(ts, newTable)

\* prev.filter(t => t.id !== tableId)
RECURSIVE deleteTable(_, _)
deleteTable(ts, tableId) ==
    IF ts = <<>> THEN <<>>
    ELSE IF Head(ts).id = tableId THEN deleteTable(Tail(ts), tableId)
         ELSE <<Head(ts)>> \o deleteTable(Tail(ts), tableId)

assignSeat(ts, tableId, seatId, guestName, tag, note) ==
    [k \in DOMAIN ts |->
        IF ts[k].id = tableId
        THEN [ts[k] EXCEPT !.seats =
                [i \in DOMAIN ts[k].seats |->
                    IF ts[k].seats[i].id = seatId
                    THEN [ts[k].seats[i] EXCEPT !.guestName = guestName,
                                                !.tag = tag, !.note = note]
                    ELSE ts[k].seats[i]]]
        ELSE ts[k]]

\* value || undefined for a string argument
StrOrUndefined(v) == IF v = Undef \/ v = EmptyStr THEN Undef ELSE v

assignSeatLater(ts, tableId, seatId, guestName, tag, note) ==
    [k \in DOMAIN ts |->
        IF ts[k].id = tableId
        THEN [ts[k] EXCEPT !.seats =
                [i \in DOMAIN ts[k].seats |->
                    IF ts[k].seats[i].id = seatId
                    THEN [ts[k].seats[i] EXCEPT !.guestName = StrOrUndefined(guestName),
                                                !.tag = StrOrUndefined(tag),
                                                !.note = StrOrUndefined(note)]
                    ELSE ts[k].seats[i]]]
        ELSE ts[k]]

-----------------------------------------------------------------------------
(* Dragging *)

\* the pointer positions (clientX - rect.left, clientY - rect.top) a run uses
GrabPoints == {<<100, 100>>}
MousePoints == {<<103, 104>>, <<160, 90>>, <<2500, -30>>}

\* mouse / zoom, zoom in tenths
OverZoom(m, z) == Frac(m * 10, z)

\* Math.sqrt((x - sx)^2 + (y - sy)^2) > 5
DragThreshold == 5
MovedPastThreshold(p, start) ==
    (p[1] - start.x) * (p[1] - start.x) + (p[2] - start.y) * (p[2] - start.y)
        > DragThreshold * DragThreshold

MinX == 50
MinY == 50
MaxX == 1950
MaxY == 1350
MaxXPages == 1150
MaxYPages == 750
MaxXLater == 800
MaxYLater == 600

\* the upper bound forgotten
ClampBelowOnly(lo, hi, v) == MathMax(Int2R(lo), v)

\* Math.max(lo, Math.min(hi, v))
Clamp(lo, hi, v) == MathMax(Int2R(lo), MathMin(Int2R(hi), v))

\* prev.map(table => table.id === draggedTable ? {...table, x: .., y: ..} : table)
moveTable(ts, dragged, newX, newY) ==
    [k \in DOMAIN ts |->
        IF ts[k].id = dragged
        THEN [ts[k] EXCEPT !.x = Clamp(MinX, MaxX, newX), !.y = Clamp(MinY, MaxY, newY)]
        ELSE ts[k]]

moveTablePages(ts, dragged, newX, newY) ==
    [k \in DOMAIN ts |->
        IF ts[k].id = dragged
        THEN [ts[k] EXCEPT !.x = Clamp(MinX, MaxXPages, newX),
                           !.y = Clamp(MinY, MaxYPages, newY)]
        ELSE ts[k]]

moveTableLater(ts, dragged, newX, newY) ==
    [k \in DOMAIN ts |->
        IF ts[k].id = dragged
        THEN [ts[k] EXCEPT !.x = Clamp(0, MaxXLater, newX), !.y = Clamp(0, MaxYLater, newY)]
        ELSE ts[k]]

-----------------------------------------------------------------------------
(* searchGuest *)

UpperCase == <<"A", "B", "D", "E", "I", "J", "N", "O", "P", "T", "V">>
LowerCase == <<"a", "b", "d", "e", "i", "j", "n", "o", "p", "t", "v">>

\* String.prototype.toLowerCase, one character
LowerChar(c) ==
    IF \E k \in DOMAIN UpperCase : UpperCase[k] = c
    THEN LowerCase[CHOOSE k \in DOMAIN UpperCase : UpperCase[k] = c]
    ELSE c

toLowerCase(str) == [k \in DOMAIN str |-> LowerChar(str[k])]

\* does needle occur in str at offset i (1-based)
MatchesAt(str, needle, i) ==
    /\ i + Len(needle) - 1 <= Len(str)
    /\ \A j \in DOMAIN needle : str[i + j - 1] = needle[j]

\* String.prototype.includes: scan the offsets from the left
RECURSIVE includesFrom(_, _, _)
includesFrom(str, needle, i) ==
    IF i + Len(needle) - 1 > Len(str) THEN FALSE
    ELSE IF MatchesAt(str, needle, i) THEN TRUE
    ELSE includesFrom(str, needle, i + 1)

includes(str, needle) == includesFrom(str, needle, 1)

\* the match made case-sensitive
SeatMatchesExactCase(seat, query) ==
    /\ seat.guestName # Undef
    /\ includes(seat.guestName, query)

\* seat.guestName?.toLowerCase().includes(query.toLowerCase())
SeatMatches(seat, query) ==
    /\ seat.guestName # Undef
    /\ includes(toLowerCase(seat.guestName), toLowerCase(query))

\* tables.find(table => table.seats.some(...)): index of the first such table, 0 if none
RECURSIVE findFrom(_, _, _)
findFrom(ts, query, k) ==
    IF k > Len(ts) THEN 0
    ELSE IF \E i \in DOMAIN ts[k].seats : SeatMatches(ts[k].seats[i], query) THEN k
    ELSE findFrom(ts, query, k + 1)

searchGuest(ts, query) == findFrom(ts, query, 1)

-----------------------------------------------------------------------------
(* exportLayout / importLayout: JSON.stringify(tables) and JSON.parse *)

\* a number in JSON text: a finite number is written out, any other as null
JsonNumber(n) == IF n.k = "int" THEN n ELSE NumNull

OptionalKeys == {"guestName", "tag", "note"}

\* an object's keys that hold undefined are left out of the text
stringifySeat(seat) ==
    [key \in {"id", "angle"} \cup {k \in OptionalKeys : seat[k] # Undef} |-> seat[key]]

stringifyTable(table) ==
    [id |-> table.id, number |-> JsonNumber(table.number), label |-> table.label,
     x |-> table.x, y |-> table.y,
     seats |-> [i \in DOMAIN table.seats |-> stringifySeat(table.seats[i])]]

stringify(ts) == [k \in DOMAIN ts |-> stringifyTable(ts[k])]

\* reading a key the parsed object does not have gives undefined
Get(object, key) == IF key \in DOMAIN object THEN object[key] ELSE Undef

parseSeat(object) ==
    Seat(object.id, object.angle, Get(object, "guestName"), Get(object, "tag"),
         Get(object, "note"))

parseTable(object) ==
    Table(object.id, object.number, object.label, Get(object, "x"), Get(object, "y"),
          [i \in DOMAIN object.seats |-> parseSeat(object.seats[i])])

parse(text) == [k \in DOMAIN text |-> parseTable(text[k])]

\* a file picked for import: text that JSON.parse accepts, given by its value, or
\* text it throws on
File(value) == [wellFormed |-> TRUE, value |-> value]
Garbage == [wellFormed |-> FALSE, value |-> <<>>]

\* a layout file written by another session: table 5 with two seats
OtherLayout ==
    stringify(<<Table(TableIdOf(Num(5)), Num(5), LabelOf(Num(5)), Int2R(300), Int2R(300),
                      <<Seat(SeatIdOf(Num(5), 0), EvenAngle(0, 2), JaneDoe, Vip, Undef),
                        Seat(SeatIdOf(Num(5), 1), EvenAngle(1, 2), Undef, Undef,
                             Undef)>>)>>)

\* JSON that is not a list of Table records: the object has no x and no y
NotTables ==
    <<[id |-> TableIdOf(Num(9)), number |-> Num(9), label |-> LabelOf(Num(9)),
       seats |-> <<>>]>>

Documents == {File(OtherLayout), File(NotTables), Garbage}

-----------------------------------------------------------------------------
(* The check-in view: guests, the check-in log, isGuestCheckedIn *)

CheckinRevisions == {"pages", "part_003"}

NumUndef == [k |-> "undefined", v |-> 0]

\* !n for a number, null or undefined
Falsy(n) == n.k # "int" \/ n.v = 0

Guest(name, tableNumber) == [name |-> name, tableNumber |-> tableNumber]

\* what loadGuests leaves in guests: trimmed names, each with the number of the
\* table that seats the guest, undefined when no table does
Guests == {Guest(JaneDoe, Num(1)), Guest(JANET, Num(2)), Guest(Bob, NumUndef)}

Stamp == <<"timestamp">>

\* a row of guest_checkins; checked_in_at is now() at the insert, so the rows are
\* kept in the order of their checked_in_at
CheckIn(id, guest_name, table_number, checked_out_at) ==
    [id |-> id, guest_name |-> guest_name, table_number |-> table_number,
     checked_out_at |-> checked_out_at]

janeDoePadded == <<"j", "a", "n", "e", " ", "d", "o", "e", " ">>

\* the log as earlier sessions left it
LogContents == {<<>>, <<CheckIn(1, janeDoePadded, Num(1), Stamp)>>}

RECURSIVE trimStart(_)
trimStart(str) ==
    IF str # <<>> /\ Head(str) = " " THEN trimStart(Tail(str)) ELSE str

RECURSIVE trimEnd(_)
trimEnd(str) ==
    IF str # <<>> /\ str[Len(str)] = " "
    THEN trimEnd(SubSeq(str, 1, Len(str) - 1))
    ELSE str

trim(str) == trimEnd(trimStart(str))

\* .order('checked_in_at', { ascending: false })
loadCheckins(rows) == [k \in DOMAIN rows |-> rows[Len(rows) + 1 - k]]

\* c.guest_name.toLowerCase().trim() === guestName.toLowerCase().trim()
\*   && !c.checked_out_at
OpenRowOf(checkin, guestName) ==
    /\ trim(toLowerCase(checkin.guest_name)) = trim(toLowerCase(guestName))
    /\ checkin.checked_out_at = Null

isGuestCheckedIn(rows, guestName) ==
    \E k \in DOMAIN rows : OpenRowOf(rows[k], guestName)

\* checkins.find(...): index of the first open row of the guest, 0 if none
findCheckin(rows, guestName) ==
    IF isGuestCheckedIn(rows, guestName)
    THEN CHOOSE k \in DOMAIN rows :
            /\ OpenRowOf(rows[k], guestName)
            /\ \A j \in 1..(k - 1) : ~OpenRowOf(rows[j], guestName)
    ELSE 0

\* a handler call that awaits the store
Call(op, guest, pc, row) == [op |-> op, guest |-> guest, pc |-> pc, row |-> row]

NoGuest == Guest(EmptyStr, NumUndef)

RemoveAt(seq, i) == SubSeq(seq, 1, i - 1) \o SubSeq(seq, i + 1, Len(seq))

-----------------------------------------------------------------------------
(* The backing store: public.table_configurations and public.seat_assignments *)

\* a row of table_configurations (created_at / updated_at left out)
ConfigRow(id, number, label, x, y, seatCount) ==
    [id |-> id, table_number |-> number, label |-> label, x |-> x, y |-> y,
     seat_count |-> seatCount]

\* a row of seat_assignments (seat_angle, created_at / updated_at left out);
\* nothing but the primary key id is unique, so equal rows may repeat
SeatRow(configId, seatIndex, guestName, tag, note) ==
    [table_configuration_id |-> configId, seat_index |-> seatIndex,
     guest_name |-> guestName, tag |-> tag, note |-> note]

EmptyStore == [table_configurations |-> <<>>, seat_assignments |-> <<>>, ids |-> 0]

RECURSIVE Flatten(_)
Flatten(seqs) == IF seqs = <<>> THEN <<>> ELSE Head(seqs) \o Flatten(Tail(seqs))

\* the store holding these joined rows
StoreOf(tableConfigs) ==
    [table_configurations |->
        [c \in DOMAIN tableConfigs |->
            ConfigRow(c, tableConfigs[c].table_number, tableConfigs[c].label,
                      tableConfigs[c].x, tableConfigs[c].y, tableConfigs[c].seat_count)],
     seat_assignments |->
        Flatten([c \in DOMAIN tableConfigs |->
                    [k \in DOMAIN tableConfigs[c].seat_assignments |->
                        LET a == tableConfigs[c].seat_assignments[k]
                        IN  SeatRow(c, a.seat_index, a.guest_name, a.tag, a.note)]]),
     ids |-> Len(tableConfigs)]

\* rows in ascending table_number (unique_table_number keeps the numbers apart)
RECURSIVE OrderByNumber(_)
OrderByNumber(rows) ==
    IF rows = <<>> THEN <<>>
    ELSE LET least == CHOOSE k \in DOMAIN rows :
                          \A j \in DOMAIN rows : rows[k].table_number <= rows[j].table_number
         IN  <<rows[least]>> \o
             OrderByNumber([j \in 1..(Len(rows) - 1) |->
                               IF j < least THEN rows[j] ELSE rows[j + 1]])

SeatsOf(st, configId) ==
    SelectSeq(st.seat_assignments, LAMBDA r : r.table_configuration_id = configId)

\* select('*, seat_assignments(*)').order('table_number')
SelectJoined(st) ==
    LET rows == OrderByNumber(st.table_configurations)
    IN  [c \in DOMAIN rows |->
            [table_number |-> rows[c].table_number, label |-> rows[c].label,
             x |-> rows[c].x, y |-> rows[c].y, seat_count |-> rows[c].seat_count,
             seat_assignments |->
                [k \in DOMAIN SeatsOf(st, rows[c].id) |->
                    LET r == SeatsOf(st, rows[c].id)[k]
                    IN  Assignment(r.seat_index, r.guest_name, r.tag, r.note)]]]

\* select('id').eq('table_number', number): the id of the row, 0 when there is none
SelectId(st, number) ==
    IF number.k = "int" /\ \E k \in DOMAIN st.table_configurations :
                              st.table_configurations[k].table_number = number.v
    THEN LET k == CHOOSE k \in DOMAIN st.table_configurations :
                      st.table_configurations[k].table_number = number.v
         IN  st.table_configurations[k].id
    ELSE 0

\* update({label, x, y, seat_count}).eq('table_number', table.number)
UpdateConfig(st, table) ==
    [st EXCEPT !.table_configurations =
        [k \in DOMAIN @ |->
            IF table.number.k = "int" /\ @[k].table_number = table.number.v
            THEN [@[k] EXCEPT !.label = table.label, !.x = table.x, !.y = table.y,
                              !.seat_count = Len(table.seats)]
            ELSE @[k]]]

\* an insert into table_configurations is refused for a table_number, x or y that
\* is absent (NOT NULL) and for a table_number a row already has
\* (unique_table_number)
InsertRefused(st, table) ==
    \/ table.number.k # "int"
    \/ table.x = Undef
    \/ table.y = Undef
    \/ SelectId(st, table.number) # 0

\* insert({table_number, label, x, y, seat_count}): the row gets a fresh id
InsertConfig(st, table) ==
    [st EXCEPT !.table_configurations =
                  Append(@, ConfigRow(st.ids + 1, table.number.v, table.label,
                                      table.x, table.y, Len(table.seats))),
               !.ids = @ + 1]

\* delete().eq('table_configuration_id', configId)
DeleteSeats(st, configId) ==
    [st EXCEPT !.seat_assignments =
        SelectSeq(@, LAMBDA r : r.table_configuration_id # configId)]

\* a seat row must reference a row of table_configurations
SeatRefused(st, configId) ==
    \A k \in DOMAIN st.table_configurations : st.table_configurations[k].id # configId

\* value || null for a nullable text column
OrNull(v) == IF v = Undef \/ v = Null \/ v = EmptyStr THEN Null ELSE v

\* seat.guestName || seat.tag || seat.note
HasData(seat) ==
    OrNull(seat.guestName) # Null \/ OrNull(seat.tag) # Null \/ OrNull(seat.note) # Null

\* insert({table_configuration_id, seat_index: i, guest_name, tag, note})
InsertSeat(st, configId, i, seat) ==
    [st EXCEPT !.seat_assignments =
        Append(@, SeatRow(configId, i, OrNull(seat.guestName), OrNull(seat.tag),
                          OrNull(seat.note)))]

\* delete().neq('id', '00000000-...'): every row goes, seat rows by ON DELETE CASCADE
DeleteAll(st) == [st EXCEPT !.table_configurations = <<>>, !.seat_assignments = <<>>]

\* a delete of the table row that left the seat rows behind
DeleteByNumberKeepsSeats(st, number) ==
    [st EXCEPT !.table_configurations = SelectSeq(@, LAMBDA r : r.id # SelectId(st, number))]

\* delete().eq('table_number', number), seat rows by ON DELETE CASCADE
DeleteByNumber(st, number) ==
    LET id == SelectId(st, number)
    IN  IF id = 0 THEN st
        ELSE [st EXCEPT !.table_configurations = SelectSeq(@, LAMBDA r : r.id # id),
                        !.seat_assignments =
                            SelectSeq(@, LAMBDA r : r.table_configuration_id # id)]

-----------------------------------------------------------------------------
(* saveTableToDatabase / saveTablesToDatabase as requests to the store *)

\* retries = 3
Retries == 3
\* a wait that does not grow
RetryDelayFlat(attempt) == 200
\* setTimeout(resolve, 200 * attempt)
RetryDelay(attempt) == 200 * attempt

\* a call of saveTableToDatabase (a batch of one table) or saveTablesToDatabase
\* that has not returned: batch[k] is the table being written, pc the request
\* awaited next, id the tableConfigId, i the seat index the loop has reached;
\* then names the handler that made the call and given is the value that handler
\* holds (importLayout: the parsed file); erred tells that a request of this
\* attempt has failed
Write(fn, batch, then, given, pc) ==
    [fn |-> fn, batch |-> batch, then |-> then, given |-> given, k |-> 1,
     attempt |-> 1, pc |-> pc, id |-> 0, i |-> 0, delay |-> 0, erred |-> FALSE]

\* the first request of a call, per snapshot
FirstPc(r, fn) ==
    IF fn = "saveTable" THEN (IF r = "later" THEN "upsert" ELSE "select")
    ELSE IF fn = "remoteDelete"
         THEN (IF r = "later" THEN "select" ELSE IF r = "pages" THEN "delete"
               ELSE "context")
    ELSE IF r = "pages" THEN "clear" ELSE "context"

\* the outcome of one step of a call: the call as it goes on, the store as the
\* request left it, and how the call ended if it did: "saved" (returned after
\* the last request), "failed" (the catch block that reports), "quiet" (an
\* early return or a catch that only logs)
Going(w, st) == [w |-> w, st |-> st, end |-> "no"]
Ended(w, st, how) == [w |-> w, st |-> st, end |-> how]

\* catch (error) of the "retry" snapshot: wait and go round again, or give up
Catch(w, st) ==
    IF w.attempt < Retries
    THEN Going([w EXCEPT !.pc = "wait", !.delay = RetryDelay(w.attempt)], st)
    ELSE Ended(w, st, "failed")

\* the least seat index from i on whose seat carries data, -1 if none
NextSeatWithData(table, i) ==
    IF \E j \in i..(Len(table.seats) - 1) : HasData(table.seats[j + 1])
    THEN CHOOSE j \in i..(Len(table.seats) - 1) :
            /\ HasData(table.seats[j + 1])
            /\ \A h \in i..(j - 1) : ~HasData(table.seats[h + 1])
    ELSE -1

\* saveTableToDatabase of the "retry" snapshot, one awaited request at a time
saveTableToDatabase(w, st, fails) ==
    LET table == w.batch[w.k]
        j == NextSeatWithData(table, w.i)
    IN  CASE w.pc = "select" ->
                IF fails THEN Catch(w, st)
                ELSE Going([w EXCEPT !.pc = IF SelectId(st, table.number) # 0
                                              THEN "update" ELSE "insert"], st)
          [] w.pc = "update" ->
                IF fails THEN Catch(w, st)
                ELSE IF SelectId(st, table.number) = 0
                     THEN Going([w EXCEPT !.pc = "insert"], st)
                     ELSE Going([w EXCEPT !.pc = "delete",
                                          !.id = SelectId(st, table.number)],
                                UpdateConfig(st, table))
          [] w.pc = "insert" ->
                IF fails \/ InsertRefused(st, table) THEN Catch(w, st)
                ELSE Going([w EXCEPT !.pc = "delete", !.id = st.ids + 1],
                           InsertConfig(st, table))
          [] w.pc = "delete" ->
                IF fails THEN Catch(w, st)
                ELSE IF NextSeatWithData(table, 0) = -1
                     THEN Ended(w, DeleteSeats(st, w.id), "saved")
                     ELSE Going([w EXCEPT !.pc = "seats", !.i = 0],
                                DeleteSeats(st, w.id))
          [] w.pc = "seats" ->
                IF fails \/ SeatRefused(st, w.id) THEN Catch(w, st)
                ELSE IF NextSeatWithData(table, j + 1) = -1
                     THEN Ended(w, InsertSeat(st, w.id, j, table.seats[j + 1]), "saved")
                     ELSE Going([w EXCEPT !.i = j + 1],
                                InsertSeat(st, w.id, j, table.seats[j + 1]))
          [] w.pc = "wait" ->
                Going([w EXCEPT !.pc = "select", !.attempt = @ + 1, !.id = 0, !.i = 0,
                                !.delay = 0], st)

\* saveTableToDatabase of the "pages" snapshot: no request is retried, a failed
\* update or insert returns, every other error goes unread
saveTableToDatabasePages(w, st, fails) ==
    LET table == w.batch[w.k]
    IN  CASE w.pc = "select" ->
                Going([w EXCEPT !.pc = IF ~fails /\ SelectId(st, table.number) # 0
                                       THEN "update" ELSE "insert"], st)
          [] w.pc = "update" ->
                IF fails \/ SelectId(st, table.number) = 0 THEN Ended(w, st, "quiet")
                ELSE Going([w EXCEPT !.pc = "delete",
                                     !.id = SelectId(st, table.number)],
                           UpdateConfig(st, table))
          [] w.pc = "insert" ->
                IF fails \/ InsertRefused(st, table) THEN Ended(w, st, "quiet")
                ELSE Going([w EXCEPT !.pc = "delete", !.id = st.ids + 1],
                           InsertConfig(st, table))
          [] w.pc = "delete" ->
                IF table.seats = <<>>
                THEN Ended(w, IF fails THEN st ELSE DeleteSeats(st, w.id), "saved")
                ELSE Going([w EXCEPT !.pc = "seats", !.i = 0],
                           IF fails THEN st ELSE DeleteSeats(st, w.id))
          [] w.pc = "seats" ->
                LET after == IF fails \/ SeatRefused(st, w.id) THEN st
                             ELSE InsertSeat(st, w.id, w.i, table.seats[w.i + 1])
                IN  IF w.i + 1 >= Len(table.seats) THEN Ended(w, after, "saved")
                    ELSE Going([w EXCEPT !.i = @ + 1], after)

\* the rows updateSeatAssignments inserts in one request
RECURSIVE InsertSeatsFrom(_, _, _, _)
InsertSeatsFrom(st, configId, table, i) ==
    LET j == NextSeatWithData(table, i)
    IN  IF j = -1 THEN st
        ELSE InsertSeatsFrom(InsertSeat(st, configId, j, table.seats[j + 1]),
                             configId, table, j + 1)

\* a call of the "later" snapshot throws: saveTablesToDatabase reports it, a
\* lone saveTableToDatabase has .catch(console.error)
Throw(w, st) == Ended(w, st, IF w.fn = "saveTables" THEN "failed" ELSE "quiet")

\* the table is written: saveTablesToDatabase goes on to the next one
NextTable(w, st) ==
    IF w.k < Len(w.batch)
    THEN Going([w EXCEPT !.k = @ + 1, !.pc = "upsert", !.id = 0, !.i = 0], st)
    ELSE Ended(w, st, "saved")

\* saveTablesToDatabase / saveTableToDatabase / updateSeatAssignments of the
\* "later" snapshot
saveTableToDatabaseLater(w, st, fails) ==
    LET table == w.batch[w.k]
    IN  CASE w.pc = "context" ->
                IF fails THEN Throw(w, st)
                ELSE IF w.batch = <<>> THEN Ended(w, st, "saved")
                     ELSE Going([w EXCEPT !.pc = "upsert"], st)
          [] w.pc = "upsert" ->
                IF fails \/ table.number.k # "int" \/ table.x = Undef \/ table.y = Undef
                THEN Throw(w, st)
                ELSE Going([w EXCEPT !.pc = "select"],
                           IF SelectId(st, table.number) # 0 THEN UpdateConfig(st, table)
                           ELSE InsertConfig(st, table))
          [] w.pc = "select" ->
                IF fails \/ SelectId(st, table.number) = 0 THEN Throw(w, st)
                ELSE Going([w EXCEPT !.pc = "delete", !.id = SelectId(st, table.number)],
                           st)
          [] w.pc = "delete" ->
                IF NextSeatWithData(table, 0) = -1
                THEN NextTable(w, IF fails THEN st ELSE DeleteSeats(st, w.id))
                ELSE Going([w EXCEPT !.pc = "seats"],
                           IF fails THEN st ELSE DeleteSeats(st, w.id))
          [] w.pc = "seats" ->
                IF fails \/ SeatRefused(st, w.id) THEN Throw(w, st)
                ELSE NextTable(w, InsertSeatsFrom(st, w.id, table, 0))

\* one pass of the loop of saveTablesToDatabase ("pages", "retry"): a refused
\* insert is logged and the loop continues; the seat inserts are not read
InsertTable(st, table, fails) ==
    IF fails \/ InsertRefused(st, table) THEN st
    ELSE InsertSeatsFrom(InsertConfig(st, table), st.ids + 1, table, 0)

\* saveTablesToDatabase of the "pages" and "retry" snapshots
saveTablesToDatabase(r, w, st, fails) ==
    CASE w.pc = "context" ->
            IF fails THEN Catch(w, st) ELSE Going([w EXCEPT !.pc = "clear"], st)
      [] w.pc = "clear" ->
            IF w.batch = <<>>
            THEN Ended(w, IF fails THEN st ELSE DeleteAll(st), "saved")
            ELSE Going([w EXCEPT !.pc = "table", !.k = 1],
                       IF fails THEN st ELSE DeleteAll(st))
      [] w.pc = "table" ->
            IF w.k < Len(w.batch)
            THEN Going([w EXCEPT !.k = @ + 1], InsertTable(st, w.batch[w.k], fails))
            ELSE Ended(w, InsertTable(st, w.batch[w.k], fails), "saved")
      [] w.pc = "wait" ->
            Going([w EXCEPT !.pc = "context", !.attempt = @ + 1, !.k = 1, !.delay = 0],
                  st)

\* does this step of the call send a request that may fail
SendsRequest(w) == w.pc # "wait"

\* the remote part of deleteTable: "pages" and "retry" delete by table_number
\* and read no error; "later" looks the row up and deletes by id
deleteTableRemote(w, st, fails) ==
    LET number == w.batch[1].number
    IN  CASE w.pc = "context" ->
                IF fails THEN Ended(w, st, "quiet")
                ELSE Going([w EXCEPT !.pc = "delete"], st)
          [] w.pc = "delete" ->
                Ended(w, IF fails THEN st ELSE DeleteByNumber(st, number), "saved")
          [] w.pc = "select" ->
                IF fails \/ number.k # "int" \/ SelectId(st, number) = 0
                THEN Ended(w, st, "quiet")
                ELSE Going([w EXCEPT !.pc = "seats", !.id = SelectId(st, number)], st)
          [] w.pc = "seats" ->
                Going([w EXCEPT !.pc = "config"],
                      IF fails THEN st ELSE DeleteSeats(st, w.id))
          [] w.pc = "config" ->
                Ended(w, IF fails THEN st
                         ELSE [DeleteSeats(st, w.id) EXCEPT !.table_configurations =
                                  SelectSeq(@, LAMBDA row : row.id # w.id)],
                      "saved")

\* the step of a call, per snapshot
StepOf(r, w, st, fails) ==
    IF w.fn = "remoteDelete" THEN deleteTableRemote(w, st, fails)
    ELSE IF r = "later" THEN saveTableToDatabaseLater(w, st, fails)
    ELSE IF w.fn = "saveTables" THEN saveTablesToDatabase(r, w, st, fails)
    ELSE IF r = "pages" THEN saveTableToDatabasePages(w, st, fails)
    ELSE saveTableToDatabase(w, st, fails)

-----------------------------------------------------------------------------
(* Events *)

Revisions == {"pages", "retry", "later"}

Event(op, tableId, with) == [op |-> op, tableId |-> tableId, with |-> with]

\* the table ids a gesture may name: the first tables on the canvas and one
\* that is not there
MaxTargets == 2
NoSuchTable == TableIdOf(Num(0))
Targets(ts) == {ts[k].id : k \in {j \in DOMAIN ts : j <= MaxTargets}} \cup {NoSuchTable}

\* seat count of the table with this id, 0 when there is none
SeatCount(ts, tableId) ==
    IF FindTable(ts, tableId) = 0 THEN 0 ELSE Len(ts[FindTable(ts, tableId)].seats)

\* the "later" snapshot has no upper limit on seats: the model stops at this length
SeatCap == 16

\* every budget unspent
Unused == [seatOps |-> 0, edits |-> 0, moves |-> 0, zooms |-> 0, files |-> 0, clicks |-> 0,
           failures |-> 0, loadErrors |-> 0]

\* the check-in view is not on screen
CheckinUnmounted ==
    /\ checkinRev = "part_003"
    /\ guest_checkins = <<>>
    /\ checkins = <<>>
    /\ processingGuest = Null
    /\ calls = <<>>
    /\ toast = ""

\* the editor as its useState calls leave it
EditorMounted(revisions) ==
    /\ rev \in revisions
    /\ loaded = FALSE
    /\ tables = <<>>
    /\ selectedTable = Null
    /\ selectedSeat = Null
    /\ zoom = 10
    /\ draggedTable = Null
    /\ dragOffset = [x |-> Int2R(0), y |-> Int2R(0)]
    /\ pendingDragTable = Null
    /\ dragStartPosition = Null
    /\ exported = <<>>

\* a run that follows the component's state only
StorageUnfollowed ==
    /\ follow = "state"
    /\ store = EmptyStore
    /\ localStorage = <<>>
    /\ saveTimeout = <<>>
    /\ writes = <<>>
    /\ saveStatus = "idle"
    /\ statusTimers = 0
    /\ pendingSaves = {}
    /\ notice = <<>>

InitOf(revisions) ==
    /\ EditorMounted(revisions)
    /\ StorageUnfollowed
    /\ CheckinUnmounted
    /\ event = Event("mount", Null, <<>>)
    /\ used = Unused

\* what the store may hold when the page is opened
SavedStores == {StoreOf(tableConfigs) : tableConfigs \in StoreContents}

\* a run that follows the store: no call is under way; spent is the part of the
\* budgets the run does not have
InitStorage(revisions, stores, caches, spent) ==
    /\ EditorMounted(revisions)
    /\ follow = "storage"
    /\ store \in stores
    /\ localStorage \in caches
    /\ saveTimeout = <<>>
    /\ writes = <<>>
    /\ saveStatus = "idle"
    /\ statusTimers = 0
    /\ pendingSaves = {}
    /\ notice = <<>>
    /\ CheckinUnmounted
    /\ event = Event("mount", Null, <<>>)
    /\ used = spent

\* the check-in view as its useState calls leave it, the effect's loadCheckins
\* under way
InitCheckIn ==
    /\ EditorMounted({"retry"})
    /\ StorageUnfollowed
    /\ checkinRev \in CheckinRevisions
    /\ guest_checkins \in LogContents
    /\ checkins = <<>>
    /\ processingGuest = Null
    /\ calls = <<Call("mount", NoGuest, "reload", 0)>>
    /\ toast = ""
    /\ event = Event("mount", Null, <<>>)
    /\ used = Unused

\* which calls set saveStatus
Reports(r, fn) ==
    \/ r = "retry" /\ fn \in {"saveTable", "saveTables"}
    \/ r = "later" /\ fn = "saveTables"

\* a run that follows the store keeps at most MaxWrites calls in flight
CanCall == follow = "storage" => Len(writes) < MaxWrites

\* the handler calls a save function: the call runs up to its first await
CallsGiven(fn, batch, then, given) ==
    IF follow = "storage"
    THEN /\ writes' = Append(writes, Write(fn, batch, then, given, FirstPc(rev, fn)))
         /\ pendingSaves' = IF rev = "retry" /\ fn = "saveTable"
                            THEN pendingSaves \cup {TableIdOf(batch[1].number)}
                            ELSE pendingSaves
         /\ saveStatus' = IF Reports(rev, fn) THEN "saving" ELSE saveStatus
    ELSE UNCHANGED <<writes, pendingSaves, saveStatus>>

Calls(fn, batch, then) == CallsGiven(fn, batch, then, <<>>)

NoCall == UNCHANGED <<writes, pendingSaves, saveStatus>>

\* useEffect(..., [tables]) of "pages" and "retry": a layout with tables is cached
Cached(ts) ==
    IF follow = "storage" /\ rev # "later" /\ ts # <<>> THEN <<stringify(ts)>>
    ELSE localStorage

\* the effect's loadTables has resolved: rows found, or the store empty / unreadable
\* in a run that follows the store the select answers with the rows ("data"),
\* answers with an error, or the try block throws (setupAdminContext gave up)
LoadReplies == IF used.loadErrors < MaxLoadErrors THEN {"data", "error", "throws"}
               ELSE {"data"}

LoadTables ==
    /\ ~loaded
    /\ loaded' = TRUE
    /\ IF follow = "state"
       THEN /\ \/ \E tableConfigs \in StoreContents :
                    /\ tables' = loadedTables(tableConfigs)
                    /\ event' = Event("loadTables", Null, <<"rows">>)
               \/ /\ tables' = DefaultLayout(rev)
                  /\ event' = Event("loadTables", Null, <<"default">>)
            /\ UNCHANGED <<storageVars, used>>
       ELSE \E reply \in LoadReplies :
            LET rows == SelectJoined(store)
                from == IF reply = "data" /\ rows # <<>> THEN "rows"
                        ELSE IF reply = "throws" /\ rev # "later" /\ localStorage # <<>>
                             THEN "cache"
                             ELSE "default"
            IN  /\ CanCall
                /\ tables' = IF from = "rows" THEN loadedTables(rows)
                             ELSE IF from = "cache" THEN parse(localStorage[1])
                             ELSE DefaultLayout(rev)
                /\ IF from = "default" /\ rev # "later"
                   THEN Calls("saveTables", DefaultLayout(rev), "initializeDefaultTables")
                   ELSE NoCall
                /\ notice' = IF rev = "later" /\ from = "rows" THEN <<"Layout Loaded">>
                             ELSE IF rev = "later" /\ reply = "throws"
                                  THEN <<"Using Default Layout">>
                                  ELSE notice
                /\ localStorage' = Cached(tables')
                /\ event' = Event("loadTables", Null, <<reply, from>>)
                /\ used' = [used EXCEPT !.loadErrors = IF reply = "data" THEN @ ELSE @ + 1]
                /\ UNCHANGED <<follow, store, saveTimeout, statusTimers>>
    /\ UNCHANGED <<exported, checkinVars>>
    /\ UNCHANGED <<rev, selectedTable, selectedSeat, zoom, draggedTable, dragOffset,
                   pendingDragTable, dragStartPosition>>

AddSeat(tableId) ==
    /\ used.seatOps < MaxSeatOps
    /\ SeatCount(tables, tableId) < SeatCap
    /\ tables' = IF rev = "later" THEN addSeatLater(tables, tableId)
                 ELSE addSeat(tables, tableId)
    /\ event' = Event("addSeat", tableId, <<SeatCount(tables, tableId)>>)
    /\ used' = [used EXCEPT !.seatOps = @ + 1]
    /\ CanCall
    /\ IF FindTable(tables, tableId) # 0
       THEN Calls("saveTable", <<tables'[FindTable(tables, tableId)]>>, "addSeat")
       ELSE NoCall
    /\ localStorage' = Cached(tables')
    /\ UNCHANGED <<follow, store, saveTimeout, statusTimers, notice>>
    /\ UNCHANGED <<exported, checkinVars>>
    /\ UNCHANGED <<rev, loaded, selectedTable, selectedSeat, zoom, draggedTable,
                   dragOffset, pendingDragTable, dragStartPosition>>

RemoveSeat(tableId) ==
    /\ used.seatOps < MaxSeatOps
    /\ tables' = IF rev = "later" THEN removeSeatLater(tables, tableId)
                 ELSE removeSeat(tables, tableId)
    /\ event' = Event("removeSeat", tableId, <<SeatCount(tables, tableId)>>)
    /\ used' = [used EXCEPT !.seatOps = @ + 1]
    /\ CanCall
    /\ IF /\ FindTable(tables, tableId) # 0
          /\ rev = "later" => SeatCount(tables, tableId) > 1
       THEN Calls("saveTable", <<tables'[FindTable(tables, tableId)]>>, "removeSeat")
       ELSE NoCall
    /\ localStorage' = Cached(tables')
    /\ UNCHANGED <<follow, store, saveTimeout, statusTimers, notice>>
    /\ UNCHANGED <<exported, checkinVars>>
    /\ UNCHANGED <<rev, loaded, selectedTable, selectedSeat, zoom, draggedTable,
                   dragOffset, pendingDragTable, dragStartPosition>>

AddTable ==
    /\ used.edits < MaxEdits
    /\ \/ /\ rev # "later"
          /\ tables' = addTable(tables)
       \/ /\ rev = "later"
          /\ \E at \in RandomPlacements : tables' = addTableLater(tables, at)
    /\ event' = Event("addTable", Null, <<>>)
    /\ used' = [used EXCEPT !.edits = @ + 1]
    /\ CanCall
    /\ Calls("saveTable", <<tables'[Len(tables')]>>, "addTable")
    /\ localStorage' = Cached(tables')
    /\ UNCHANGED <<follow, store, saveTimeout, statusTimers, notice>>
    /\ UNCHANGED <<exported, checkinVars>>
    /\ UNCHANGED <<rev, loaded, selectedTable, selectedSeat, zoom, draggedTable,
                   dragOffset, pendingDragTable, dragStartPosition>>

\* the table the "later" deleteTable looks up: parseInt(tableId.split('-')[1])
TableNumbered(tableId) == Table(tableId, tableId[2], Undef, Undef, Undef, <<>>)

\* "pages" and "retry" await the remote delete before they touch the state, so
\* in a run that follows the store the rest of deleteTable is in Proceeds
DeleteTable(tableId) ==
    /\ used.edits < MaxEdits
    /\ event' = Event("deleteTable", tableId, <<>>)
    /\ used' = [used EXCEPT !.edits = @ + 1]
    /\ CanCall
    /\ IF follow = "storage" /\ rev # "later" /\ FindTable(tables, tableId) # 0
       THEN /\ Calls("remoteDelete", <<tables[FindTable(tables, tableId)]>>, "deleteTable")
            /\ UNCHANGED <<tables, selectedTable, selectedSeat, notice>>
       ELSE /\ tables' = deleteTable(tables, tableId)
            /\ IF rev = "later"
               THEN /\ IF selectedTable = tableId
                       THEN selectedTable' = Null /\ selectedSeat' = Null
                       ELSE UNCHANGED <<selectedTable, selectedSeat>>
                    /\ Calls("remoteDelete", <<TableNumbered(tableId)>>, "deleteTable")
                    /\ UNCHANGED notice
               ELSE /\ selectedTable' = Null /\ UNCHANGED selectedSeat
                    /\ NoCall
                    /\ notice' = IF follow = "storage" THEN <<"Table deleted">>
                                 ELSE notice
    /\ localStorage' = Cached(tables')
    /\ UNCHANGED <<follow, store, saveTimeout, statusTimers>>
    /\ UNCHANGED <<exported, checkinVars>>
    /\ UNCHANGED <<rev, loaded, zoom, draggedTable, dragOffset, pendingDragTable,
                   dragStartPosition>>

\* what the assignment form hands to assignSeat: a trimmed name with optional tag
\* and note, or the Clear button's three empty strings
AssignArgs == {<<JaneDoe, Vip, Undef>>, <<EmptyStr, EmptyStr, EmptyStr>>}

\* the seats a gesture may name: the first and the last seat of the table
SeatTargets(ts, tableId) ==
    IF FindTable(ts, tableId) = 0 THEN {}
    ELSE LET seats == ts[FindTable(ts, tableId)].seats
         IN  {seats[i].id : i \in {1, Len(seats)}}

\* assignSeat, called by the handler op of the assignment form
AssignSeatBy(op, tableId, seatId, args) ==
    /\ used.edits < MaxEdits
    /\ tables' = IF rev = "later"
                 THEN assignSeatLater(tables, tableId, seatId, args[1], args[2], args[3])
                 ELSE assignSeat(tables, tableId, seatId, args[1], args[2], args[3])
    /\ event' = Event(op, tableId, <<seatId, args>>)
    /\ used' = [used EXCEPT !.edits = @ + 1]
    /\ CanCall
    /\ IF FindTable(tables, tableId) # 0
       THEN /\ Calls("saveTable", <<tables'[FindTable(tables, tableId)]>>, "assignSeat")
            /\ selectedSeat' = IF rev = "later" \/ follow = "storage" THEN selectedSeat
                               ELSE Null
            /\ notice' = IF follow = "storage" /\ rev = "later"
                         THEN <<"Seat Assigned">> ELSE notice
       ELSE /\ NoCall
            /\ selectedSeat' = IF rev = "later" THEN selectedSeat ELSE Null
            /\ notice' = IF follow # "storage" THEN notice
                         ELSE IF rev = "later" THEN <<"Seat Assigned">>
                         ELSE IF rev = "retry" THEN <<"Could not find table to save">>
                         ELSE <<"Seat assigned">>
    /\ localStorage' = Cached(tables')
    /\ UNCHANGED <<follow, store, saveTimeout, statusTimers>>
    /\ UNCHANGED <<exported, checkinVars>>
    /\ UNCHANGED <<rev, loaded, selectedTable, zoom, draggedTable, dragOffset,
                   pendingDragTable, dragStartPosition>>

\* the Clear button of the form, and a name handed over as typed
AssignSeat(tableId, seatId, args) == AssignSeatBy("assignSeat", tableId, seatId, args)

\* the state of the assignment form when Assign Seat is pressed: the name of the
\* field in use (the guest chosen in the list, or the custom name as typed)
Form(useCustomName, name, tag, note) ==
    [useCustomName |-> useCustomName, name |-> name, tag |-> tag, note |-> note]

Forms ==
    {Form(FALSE, JaneDoe, Vip, EmptyStr), Form(FALSE, EmptyStr, Vip, EmptyStr),
     Form(TRUE, <<" ", " ">>, EmptyStr, <<" ">>), Form(TRUE, <<"B", "o", "b", " ">>, EmptyStr, EmptyStr)}

\* isDuplicate of the "later" form: the name is held by another seat
isDuplicate(ts, seatId, currentGuestName) ==
    /\ currentGuestName # EmptyStr
    /\ \E k \in DOMAIN ts : \E i \in DOMAIN ts[k].seats :
          /\ ts[k].seats[i].guestName \notin {Undef, Null, EmptyStr}
          /\ ts[k].seats[i].id # seatId
          /\ trim(toLowerCase(ts[k].seats[i].guestName))
                = trim(toLowerCase(currentGuestName))

\* what handleSubmit hands to onAssign
Submitted(r, form) ==
    IF r = "later"
    THEN <<IF form.useCustomName THEN trim(form.name) ELSE form.name, form.tag, form.note>>
    ELSE <<trim(form.name), StrOrUndefined(trim(form.tag)), StrOrUndefined(trim(form.note))>>

\* handleSubmit of SeatAssignmentForm, with the assignSeat it calls
HandleSubmit(tableId, seatId, form) ==
    /\ rev = "later" => ~isDuplicate(tables, seatId, Submitted(rev, form)[1])
    /\ IF rev = "later" \/ trim(form.name) # EmptyStr
       THEN AssignSeatBy("handleSubmit", tableId, seatId, Submitted(rev, form))
       ELSE /\ used.edits < MaxEdits
            /\ event' = Event("handleSubmit", tableId, <<seatId, Submitted(rev, form)>>)
            /\ used' = [used EXCEPT !.edits = @ + 1]
            /\ UNCHANGED <<editorVars, exported, storageVars, checkinVars>>

HandleMouseDown(tableId, p) ==
    LET k == FindTable(tables, tableId)
        grab == [x |-> RSub(OverZoom(p[1], zoom), tables[k].x),
                 y |-> RSub(OverZoom(p[2], zoom), tables[k].y)]
    IN  /\ draggedTable = Null
        /\ event' = Event("mouseDown", tableId, p)
        /\ IF rev = "later"
           THEN /\ draggedTable' = tableId
                /\ dragOffset' = IF k # 0 THEN grab ELSE dragOffset
                /\ UNCHANGED <<selectedTable, pendingDragTable, dragStartPosition>>
           ELSE IF k = 0
                THEN UNCHANGED <<selectedTable, pendingDragTable, dragStartPosition,
                                 dragOffset, draggedTable>>
                ELSE /\ selectedTable' = tableId
                     /\ pendingDragTable' = tableId
                     /\ dragStartPosition' = p
                     /\ dragOffset' = grab
                     /\ UNCHANGED draggedTable
        /\ UNCHANGED <<exported, checkinVars, storageVars>>
        /\ UNCHANGED <<rev, loaded, tables, selectedSeat, zoom, used>>

HandleMouseMove(p) ==
    LET newX == RSub(OverZoom(p[1], zoom), dragOffset.x)
        newY == RSub(OverZoom(p[2], zoom), dragOffset.y)
    IN  /\ used.moves < MaxMoves
        /\ rev = "later" => draggedTable # Null
        /\ event' = Event("mouseMove", draggedTable, p)
        /\ used' = [used EXCEPT !.moves = @ + 1]
        /\ IF rev = "later"
           THEN /\ tables' = moveTableLater(tables, draggedTable, newX, newY)
                /\ UNCHANGED draggedTable
           ELSE /\ draggedTable' =
                      IF /\ pendingDragTable # Null
                         /\ draggedTable = Null
                         /\ dragStartPosition # Null
                         /\ MovedPastThreshold(p, [x |-> dragStartPosition[1],
                                                   y |-> dragStartPosition[2]])
                      THEN pendingDragTable
                      ELSE draggedTable
                /\ tables' =
                      IF draggedTable = Null THEN tables
                      ELSE IF rev = "pages"
                           THEN moveTablePages(tables, draggedTable, newX, newY)
                           ELSE moveTable(tables, draggedTable, newX, newY)
        /\ localStorage' = Cached(tables')
        /\ UNCHANGED <<follow, store, saveTimeout, writes, saveStatus, statusTimers,
                       pendingSaves, notice>>
        /\ UNCHANGED <<exported, checkinVars>>
        /\ UNCHANGED <<rev, loaded, selectedTable, selectedSeat, zoom, dragOffset,
                       pendingDragTable, dragStartPosition>>

\* a handleMouseUp that would save the table pressed, dragged or not
SavedAtMouseUpPressed == IF draggedTable # Null THEN draggedTable ELSE pendingDragTable

\* the table handleMouseUp saves: if (draggedTable) tables.find(t => t.id === draggedTable)
SavedAtMouseUp == draggedTable

\* debouncedSave: the pending timer is cleared and a new one set; "retry" will
\* save the dragged table as it is now, "later" the tables of this render
Debounced ==
    IF rev = "retry"
    THEN <<[fn |-> "saveTable", batch |-> <<tables[FindTable(tables, SavedAtMouseUp)]>>]>>
    ELSE <<[fn |-> "saveTables", batch |-> tables]>>

\* "pages" awaits saveTableToDatabase before it resets the drag state, so in a
\* run that follows the store that reset is in Proceeds
HandleMouseUp ==
    /\ rev = "later" => draggedTable # Null
    /\ pendingDragTable # Null \/ draggedTable # Null
    /\ event' = Event("mouseUp", draggedTable, <<>>)
    /\ CanCall
    /\ IF follow = "storage" /\ rev = "pages" /\ FindTable(tables, SavedAtMouseUp) # 0
       THEN /\ Calls("saveTable", <<tables[FindTable(tables, SavedAtMouseUp)]>>, "mouseUp")
            /\ UNCHANGED <<draggedTable, pendingDragTable, dragStartPosition, saveTimeout>>
       ELSE /\ draggedTable' = Null
            /\ IF rev = "later"
               THEN UNCHANGED <<pendingDragTable, dragStartPosition>>
               ELSE pendingDragTable' = Null /\ dragStartPosition' = Null
            /\ saveTimeout' =
                  IF /\ follow = "storage"
                     /\ rev = "later" \/ FindTable(tables, SavedAtMouseUp) # 0
                  THEN Debounced ELSE saveTimeout
            /\ NoCall
    /\ UNCHANGED <<follow, store, localStorage, statusTimers, notice>>
    /\ UNCHANGED <<exported, checkinVars>>
    /\ UNCHANGED <<rev, loaded, tables, selectedTable, selectedSeat, zoom, dragOffset,
                   used>>

\* onClick={() => setSelectedTable(table.id)} on a table of the "later" canvas
ClickTable(tableId) ==
    /\ rev = "later"
    /\ FindTable(tables, tableId) # 0
    /\ selectedTable' = tableId
    /\ event' = Event("clickTable", tableId, <<>>)
    /\ UNCHANGED <<exported, checkinVars, storageVars>>
    /\ UNCHANGED <<rev, loaded, tables, selectedSeat, zoom, draggedTable, dragOffset,
                   pendingDragTable, dragStartPosition, used>>

\* onClick of a seat on the "later" canvas: setSelectedTable(table.id),
\* setSelectedSeat({ tableId: table.id, seatId: seat.id })
ClickSeat(tableId, seatId) ==
    /\ rev = "later"
    /\ FindTable(tables, tableId) # 0
    /\ selectedTable' = tableId
    /\ selectedSeat' = <<tableId, seatId>>
    /\ event' = Event("clickSeat", tableId, <<seatId>>)
    /\ UNCHANGED <<exported, checkinVars, storageVars>>
    /\ UNCHANGED <<rev, loaded, tables, zoom, draggedTable, dragOffset,
                   pendingDragTable, dragStartPosition, used>>

\* the Delete Table button of the selected table's panel
DeleteSelectedTable ==
    /\ FindTable(tables, selectedTable) # 0
    /\ DeleteTable(selectedTable)

MinZoom == 5
MaxZoom == 20

\* setZoom(Math.min(2, zoom + 0.1))
ZoomIn ==
    /\ used.zooms < MaxZooms
    /\ zoom' = IF zoom + 1 < MaxZoom THEN zoom + 1 ELSE MaxZoom
    /\ event' = Event("zoomIn", Null, <<>>)
    /\ used' = [used EXCEPT !.zooms = @ + 1]
    /\ UNCHANGED <<exported, checkinVars, storageVars>>
    /\ UNCHANGED <<rev, loaded, tables, selectedTable, selectedSeat, draggedTable,
                   dragOffset, pendingDragTable, dragStartPosition>>

\* setZoom(Math.max(0.5, zoom - 0.1))
ZoomOut ==
    /\ used.zooms < MaxZooms
    /\ zoom' = IF zoom - 1 > MinZoom THEN zoom - 1 ELSE MinZoom
    /\ event' = Event("zoomOut", Null, <<>>)
    /\ used' = [used EXCEPT !.zooms = @ + 1]
    /\ UNCHANGED <<exported, checkinVars, storageVars>>
    /\ UNCHANGED <<rev, loaded, tables, selectedTable, selectedSeat, draggedTable,
                   dragOffset, pendingDragTable, dragStartPosition>>

\* the queries typed into the search box
Queries == {<<"j", "A", "n", "e">>, <<"D", "O", "E">>, <<"z">>, EmptyStr}

SearchGuest(query) ==
    LET found == searchGuest(tables, query)
    IN  /\ rev # "later"
        /\ selectedTable' = IF found # 0 THEN tables[found].id ELSE selectedTable
        /\ event' = Event("searchGuest", Null, query)
        /\ UNCHANGED <<exported, checkinVars, storageVars>>
        /\ UNCHANGED <<rev, loaded, tables, selectedSeat, zoom, draggedTable, dragOffset,
                       pendingDragTable, dragStartPosition, used>>

\* exportLayout: the download of JSON.stringify(tables)
ExportLayout ==
    /\ used.files < MaxFiles
    /\ exported' = <<[text |-> stringify(tables), of |-> tables]>>
    /\ event' = Event("exportLayout", Null, <<>>)
    /\ used' = [used EXCEPT !.files = @ + 1]
    /\ UNCHANGED <<editorVars, storageVars, checkinVars>>

\* the files the user may pick: the download, and in a run that follows the
\* store the documents of other origin
Files ==
    (IF exported = <<>> THEN {} ELSE {File(exported[1].text)})
    \cup (IF follow = "storage" THEN Documents ELSE {})

\* importLayout, reader.onload: JSON.parse, setTables, saveTablesToDatabase up to
\* its first await; "later" saves the tables of the render, not the parsed ones
ImportLayout ==
    /\ used.files < MaxFiles
    /\ used' = [used EXCEPT !.files = @ + 1]
    /\ CanCall
    /\ \E file \in Files :
          /\ event' = Event("importLayout", Null, <<file>>)
          /\ IF file.wellFormed
             THEN /\ tables' = parse(file.value)
                  /\ CallsGiven("saveTables", IF rev = "later" THEN tables ELSE tables',
                                "importLayout", parse(file.value))
                  /\ notice' = IF follow = "storage" /\ rev = "later"
                               THEN <<"Layout Imported">> ELSE notice
             ELSE /\ notice' = IF rev = "later" THEN <<"Import Failed">>
                               ELSE <<"Invalid file format">>
                  /\ NoCall
                  /\ UNCHANGED tables
    /\ localStorage' = Cached(tables')
    /\ UNCHANGED <<follow, store, saveTimeout, statusTimers>>
    /\ UNCHANGED <<exported, checkinVars>>
    /\ UNCHANGED <<rev, loaded, selectedTable, selectedSeat, zoom, draggedTable,
                   dragOffset, pendingDragTable, dragStartPosition>>

-----------------------------------------------------------------------------
(* The editor: timers and the replies of the store *)

\* the debounce timer fires: async () => { await saveTableToDatabase(table) }
SaveTimeout ==
    /\ saveTimeout # <<>>
    /\ CanCall
    /\ Calls(saveTimeout[1].fn, saveTimeout[1].batch, "debouncedSave")
    /\ saveTimeout' = <<>>
    /\ event' = Event("saveTimeout", Null, <<>>)
    /\ UNCHANGED <<follow, store, localStorage, statusTimers, notice>>
    /\ UNCHANGED <<editorVars, exported, checkinVars, used>>

\* setTimeout(() => setSaveStatus('idle'), ...) fires
StatusTimeout ==
    /\ statusTimers > 0
    /\ statusTimers' = statusTimers - 1
    /\ saveStatus' = "idle"
    /\ event' = Event("statusTimeout", Null, <<>>)
    /\ UNCHANGED <<follow, store, localStorage, saveTimeout, writes, pendingSaves, notice>>
    /\ UNCHANGED <<editorVars, exported, checkinVars, used>>

\* the toasts of the function that returns
OwnToasts(r, w, end) ==
    IF end = "failed"
    THEN (IF w.fn = "saveTable" THEN <<"Save Error">> ELSE <<"Save Failed">>)
    ELSE IF end = "saved" /\ r = "later" /\ w.fn = "saveTables" THEN <<"Layout Saved">>
         ELSE <<>>

\* the toasts of the handler that awaited the call ("pages", "retry")
AwaiterToasts(r, w, end) ==
    IF r = "later" THEN <<>>
    ELSE CASE w.then = "addTable" -> <<"Table added">>
           [] w.then = "deleteTable" -> <<"Table deleted">>
           [] w.then = "importLayout" -> <<"Layout imported">>
           [] w.then = "assignSeat" ->
                 IF r = "pages" THEN <<"Seat assigned">>
                 ELSE IF end = "saved" THEN <<"Seat assigned and saved">>
                      ELSE <<"Failed to save seat assignment">>
           [] OTHER -> <<>>

\* the store answers the request call n awaits; when that was the last one the
\* call returns and the handler awaiting it runs to its end
Proceeds(n) ==
    \E fails \in IF SendsRequest(writes[n]) /\ used.failures < MaxFailures
                 THEN {FALSE, TRUE} ELSE {FALSE} :
        LET w == writes[n]
            r == StepOf(rev, w, store, fails)
            ended == r.end # "no"
            toasts == OwnToasts(rev, w, r.end) \o AwaiterToasts(rev, w, r.end)
        IN  /\ store' = r.st
            /\ used' = [used EXCEPT !.failures = IF fails THEN @ + 1 ELSE @]
            /\ event' = Event(w.fn, IF w.fn = "saveTables" THEN Null ELSE w.batch[1].id,
                              <<w.then, w.pc, w.attempt, fails, r.end,
                                w.erred \/ fails, w.given>>)
            /\ writes' = IF ended THEN RemoveAt(writes, n)
                         ELSE [writes EXCEPT ![n] =
                                 [r.w EXCEPT !.erred = r.w.pc # "wait" /\ (@ \/ fails)]]
            /\ saveStatus' =
                  IF ~Reports(rev, w.fn) THEN saveStatus
                  ELSE IF r.end = "saved" THEN "saved"
                  ELSE IF r.end = "failed" THEN "error"
                  ELSE IF w.pc = "wait" THEN "saving"
                  ELSE saveStatus
            /\ statusTimers' = IF Reports(rev, w.fn) /\ r.end \in {"saved", "failed"}
                               THEN statusTimers + 1 ELSE statusTimers
            /\ pendingSaves' = IF rev = "retry" /\ w.fn = "saveTable" /\ ended
                               THEN pendingSaves \ {TableIdOf(w.batch[1].number)}
                               ELSE pendingSaves
            /\ notice' = IF ended /\ toasts # <<>> THEN toasts ELSE notice
            /\ tables' = IF ended /\ rev # "later" /\ w.then = "deleteTable"
                         THEN deleteTable(tables, w.batch[1].id) ELSE tables
            /\ selectedTable' = IF ended /\ rev # "later" /\ w.then = "deleteTable"
                                THEN Null ELSE selectedTable
            /\ selectedSeat' = IF ended /\ rev # "later" /\ w.then = "assignSeat"
                               THEN Null ELSE selectedSeat
            /\ IF ended /\ w.then = "mouseUp"
               THEN draggedTable' = Null /\ pendingDragTable' = Null
                    /\ dragStartPosition' = Null
               ELSE UNCHANGED <<draggedTable, pendingDragTable, dragStartPosition>>
            /\ localStorage' = Cached(tables')
            /\ UNCHANGED <<follow, saveTimeout>>
            /\ UNCHANGED <<rev, loaded, zoom, dragOffset, exported, checkinVars>>

-----------------------------------------------------------------------------
(* The check-in view: handlers *)

\* the Check In button is rendered for a guest not reported checked in; part_003
\* disables it while the guest is processed and when the guest has no table
CheckInButton(guest) ==
    /\ ~isGuestCheckedIn(checkins, guest.name)
    /\ checkinRev = "part_003" =>
          /\ processingGuest # guest.name
          /\ ~Falsy(guest.tableNumber)

CheckOutButton(guest) ==
    /\ isGuestCheckedIn(checkins, guest.name)
    /\ checkinRev = "part_003" => processingGuest # guest.name

\* handleCheckIn up to its first await
HandleCheckIn(guest) ==
    /\ used.clicks < MaxClicks
    /\ CheckInButton(guest)
    /\ event' = Event("handleCheckIn", Null, guest)
    /\ used' = [used EXCEPT !.clicks = @ + 1]
    /\ IF checkinRev = "part_003"
       THEN IF isGuestCheckedIn(checkins, guest.name)
            THEN /\ toast' = "Already Checked In"
                 /\ UNCHANGED <<processingGuest, calls>>
            ELSE IF Falsy(guest.tableNumber)
                 THEN /\ toast' = "No Table Assigned"
                      /\ UNCHANGED <<processingGuest, calls>>
                 ELSE /\ processingGuest' = guest.name
                      /\ calls' = Append(calls, Call("checkIn", guest, "insert", 0))
                      /\ UNCHANGED toast
       ELSE /\ calls' = Append(calls, Call("checkIn", guest, "insert", 0))
            /\ UNCHANGED <<processingGuest, toast>>
    /\ UNCHANGED <<editorVars, storageVars, exported, checkinRev, guest_checkins, checkins>>

\* the row handleCheckIn inserts
checkInData(guest) ==
    IF checkinRev = "part_003"
    THEN CheckIn(Len(guest_checkins) + 1, trim(guest.name), guest.tableNumber, Null)
    ELSE CheckIn(Len(guest_checkins) + 1, guest.name,
                 IF Falsy(guest.tableNumber) THEN Num(0) ELSE guest.tableNumber, Null)

\* the insert of a handleCheckIn call resolves: the row is stored, or the store
\* answers with an error and the handler ends in its catch
CheckInInsert(i) ==
    /\ calls[i].op = "checkIn"
    /\ calls[i].pc = "insert"
    /\ event' = Event("insert", Null, calls[i].guest)
    /\ \/ /\ guest_checkins' = Append(guest_checkins, checkInData(calls[i].guest))
          /\ calls' = [calls EXCEPT ![i].pc = "reload"]
          /\ toast' = "Success"
          /\ UNCHANGED processingGuest
       \/ /\ calls' = RemoveAt(calls, i)
          /\ toast' = IF checkinRev = "part_003" THEN "Check-In Failed" ELSE "Error"
          /\ processingGuest' = IF checkinRev = "part_003" THEN Null ELSE processingGuest
          /\ UNCHANGED guest_checkins
    /\ UNCHANGED <<editorVars, storageVars, exported, checkinRev, checkins, used>>

\* handleCheckOut up to the update: the open row is looked up in the checkins of
\* the render the click came from
HandleCheckOut(guest) ==
    LET k == findCheckin(checkins, guest.name)
    IN  /\ used.clicks < MaxClicks
        /\ CheckOutButton(guest)
        /\ event' = Event("handleCheckOut", Null, guest)
        /\ used' = [used EXCEPT !.clicks = @ + 1]
        /\ IF k = 0
           THEN /\ toast' = IF checkinRev = "part_003" THEN "Not Checked In" ELSE toast
                /\ UNCHANGED <<processingGuest, calls>>
           ELSE /\ calls' = Append(calls, Call("checkOut", guest, "update", checkins[k].id))
                /\ processingGuest' =
                      IF checkinRev = "part_003" THEN guest.name ELSE processingGuest
                /\ UNCHANGED toast
        /\ UNCHANGED <<editorVars, storageVars, exported, checkinRev, guest_checkins, checkins>>

\* .update({ checked_out_at }).eq('id', checkin.id) resolves
CheckOutUpdate(i) ==
    /\ calls[i].op = "checkOut"
    /\ calls[i].pc = "update"
    /\ event' = Event("update", Null, calls[i].guest)
    /\ \/ /\ guest_checkins' =
                [k \in DOMAIN guest_checkins |->
                    IF guest_checkins[k].id = calls[i].row
                    THEN [guest_checkins[k] EXCEPT !.checked_out_at = Stamp]
                    ELSE guest_checkins[k]]
          /\ calls' = [calls EXCEPT ![i].pc = "reload"]
          /\ toast' = "Success"
          /\ UNCHANGED processingGuest
       \/ /\ calls' = RemoveAt(calls, i)
          /\ toast' = IF checkinRev = "part_003" THEN "Check-Out Failed" ELSE "Error"
          /\ processingGuest' = IF checkinRev = "part_003" THEN Null ELSE processingGuest
          /\ UNCHANGED guest_checkins
    /\ UNCHANGED <<editorVars, storageVars, exported, checkinRev, checkins, used>>

\* loadCheckins resolves, for the mount effect or at the end of a handler: the
\* rows replace checkins, or the query fails and checkins stay; a part_003
\* handler then reaches its finally
LoadCheckins(i) ==
    /\ calls[i].pc = "reload"
    /\ \/ /\ checkins' = loadCheckins(guest_checkins)
          /\ event' = Event("loadCheckins", Null, <<calls[i], "rows">>)
          /\ UNCHANGED toast
       \/ /\ toast' = "Error"
          /\ event' = Event("loadCheckins", Null, <<calls[i], "error">>)
          /\ UNCHANGED checkins
    /\ calls' = RemoveAt(calls, i)
    /\ processingGuest' =
          IF checkinRev = "part_003" /\ calls[i].op # "mount" THEN Null
          ELSE processingGuest
    /\ UNCHANGED <<editorVars, storageVars, exported, checkinRev, guest_checkins, used>>

-----------------------------------------------------------------------------
(* Specifications *)

\* seats, tables and assignments; "pages" and "retry" share the text of these
\* handlers
NextSeats ==
    \/ LoadTables
    \/ \E tableId \in Targets(tables) : AddSeat(tableId)
    \/ \E tableId \in Targets(tables) : RemoveSeat(tableId)
    \/ AddTable
    \/ \E tableId \in Targets(tables) : DeleteTable(tableId)
    \/ \E tableId \in Targets(tables) : \E seatId \in SeatTargets(tables, tableId) :
          \E args \in AssignArgs : AssignSeat(tableId, seatId, args)

Spec == InitOf({"retry", "later"}) /\ [][NextSeats]_vars

\* seats and their assignments
NextAngles ==
    \/ LoadTables
    \/ \E tableId \in Targets(tables) : AddSeat(tableId)
    \/ \E tableId \in Targets(tables) : RemoveSeat(tableId)
    \/ \E tableId \in Targets(tables) : \E seatId \in SeatTargets(tables, tableId) :
          \E args \in AssignArgs : AssignSeat(tableId, seatId, args)

SpecAngles == InitOf({"retry", "later"}) /\ [][NextAngles]_vars

\* the drag controller with the movement threshold
NextDrag ==
    \/ LoadTables
    \/ \E tableId \in Targets(tables) : \E p \in GrabPoints : HandleMouseDown(tableId, p)
    \/ \E p \in MousePoints : HandleMouseMove(p)
    \/ HandleMouseUp
    \/ ZoomIn
    \/ ZoomOut

SpecDrag == InitOf({"pages", "retry"}) /\ [][NextDrag]_vars

\* the drag controller of the "later" snapshot, which drags from the pointer-down on
NextDragLater ==
    \/ LoadTables
    \/ \E tableId \in Targets(tables) : \E p \in GrabPoints : HandleMouseDown(tableId, p)
    \/ \E p \in MousePoints : HandleMouseMove(p)
    \/ HandleMouseUp
    \/ \E tableId \in Targets(tables) : ClickTable(tableId)

SpecDragLater == InitOf({"later"}) /\ [][NextDragLater]_vars

\* the guest search
NextSearch ==
    \/ LoadTables
    \/ \E tableId \in Targets(tables) : \E p \in GrabPoints : HandleMouseDown(tableId, p)
    \/ HandleMouseUp
    \/ \E tableId \in Targets(tables) : \E seatId \in SeatTargets(tables, tableId) :
          \E args \in AssignArgs : AssignSeat(tableId, seatId, args)
    \/ \E query \in Queries : SearchGuest(query)

SpecSearch == InitOf({"pages", "retry"}) /\ [][NextSearch]_vars

\* export and import of the layout file
NextFile ==
    \/ LoadTables
    \/ AddTable
    \/ \E tableId \in Targets(tables) : DeleteTable(tableId)
    \/ \E tableId \in Targets(tables) : \E seatId \in SeatTargets(tables, tableId) :
          \E args \in AssignArgs : AssignSeat(tableId, seatId, args)
    \/ ExportLayout
    \/ ImportLayout

SpecFile == InitOf({"pages", "retry"}) /\ [][NextFile]_vars

\* the debounced save of a drag among the immediate saves of the seat edits
\* ("retry"), every request answered without error
NextDebounce ==
    \/ LoadTables
    \/ \E tableId \in Targets(tables) : \E p \in GrabPoints : HandleMouseDown(tableId, p)
    \/ \E p \in MousePoints : HandleMouseMove(p)
    \/ HandleMouseUp
    \/ \E tableId \in Targets(tables) : AddSeat(tableId)
    \/ SaveTimeout
    \/ \E n \in DOMAIN writes : Proceeds(n)

\* two tables, one of them with guests
TwoTables ==
    StoreOf(<<Config(1, 600, 400, 2, <<Assignment(1, Bob, Null, Null)>>),
              Config(2, 700, 400, 3, <<>>)>>)

SpecDebounce ==
    /\ InitStorage({"retry"}, {TwoTables}, {<<>>},
                   [Unused EXCEPT !.failures = MaxFailures, !.loadErrors = MaxLoadErrors,
                                  !.seatOps = MaxSeatOps - 1])
    /\ [][NextDebounce]_vars

\* presses, drags and releases of the "retry" snapshot with their debounced
\* saves, two pointer moves per run
NextGesture ==
    \/ LoadTables
    \/ \E tableId \in Targets(tables) : \E p \in GrabPoints : HandleMouseDown(tableId, p)
    \/ \E p \in MousePoints : HandleMouseMove(p)
    \/ HandleMouseUp
    \/ SaveTimeout
    \/ \E n \in DOMAIN writes : Proceeds(n)

SpecGesture ==
    /\ InitStorage({"retry"}, {TwoTables}, {<<>>},
                   [Unused EXCEPT !.failures = MaxFailures, !.loadErrors = MaxLoadErrors,
                                  !.moves = MaxMoves - 2])
    /\ [][NextGesture]_vars

\* the same gestures in the "pages" snapshot, whose pointer-up awaits the save
NextRelease ==
    \/ LoadTables
    \/ \E tableId \in Targets(tables) : \E p \in GrabPoints : HandleMouseDown(tableId, p)
    \/ \E p \in MousePoints : HandleMouseMove(p)
    \/ HandleMouseUp
    \/ \E n \in DOMAIN writes : Proceeds(n)

SpecRelease ==
    /\ InitStorage({"pages"}, {TwoTables}, {<<>>},
                   [Unused EXCEPT !.failures = MaxFailures, !.loadErrors = MaxLoadErrors,
                                  !.moves = MaxMoves - 2])
    /\ [][NextRelease]_vars

\* a table is selected and deleted with its button, every request answered; the
\* run ends before a debounce timer set by a release fires
NextDelete ==
    \/ LoadTables
    \/ \E tableId \in Targets(tables) : \E p \in GrabPoints : HandleMouseDown(tableId, p)
    \/ HandleMouseUp
    \/ \E tableId \in Targets(tables) : ClickTable(tableId)
    \/ \E tableId \in Targets(tables) : \E seatId \in SeatTargets(tables, tableId) :
          ClickSeat(tableId, seatId)
    \/ DeleteSelectedTable
    \/ \E n \in DOMAIN writes : Proceeds(n)

SpecDelete ==
    /\ InitStorage(Revisions, {TwoTables}, {<<>>},
                   [Unused EXCEPT !.failures = MaxFailures, !.loadErrors = MaxLoadErrors,
                                  !.edits = MaxEdits - 1])
    /\ [][NextDelete]_vars

\* tables are added and seats assigned, MaxAssignEdits edits per run
NextAssign ==
    \/ LoadTables
    \/ AddTable
    \/ \E tableId \in Targets(tables) : \E seatId \in SeatTargets(tables, tableId) :
          \E args \in AssignArgs : AssignSeat(tableId, seatId, args)

InitAssign ==
    /\ EditorMounted(Revisions)
    /\ StorageUnfollowed
    /\ CheckinUnmounted
    /\ event = Event("mount", Null, <<>>)
    /\ used = [Unused EXCEPT !.edits = MaxEdits - MaxAssignEdits]

SpecAssign == InitAssign /\ [][NextAssign]_vars

\* a drag of the "retry" snapshot, its debounced save, and the deletion of
\* the dragged table, every request answered without error
NextDragDelete ==
    \/ LoadTables
    \/ \E tableId \in Targets(tables) : \E p \in GrabPoints : HandleMouseDown(tableId, p)
    \/ \E p \in MousePoints : HandleMouseMove(p)
    \/ HandleMouseUp
    \/ DeleteSelectedTable
    \/ SaveTimeout
    \/ \E n \in DOMAIN writes : Proceeds(n)

SpecDragDelete ==
    /\ InitStorage({"retry"}, {TwoTables}, {<<>>},
                   [Unused EXCEPT !.failures = MaxFailures,
                                  !.loadErrors = MaxLoadErrors,
                                  !.moves = MaxMoves - 1,
                                  !.edits = MaxEdits - 1])
    /\ [][NextDragDelete]_vars

\* the immediate saves of the seat edits ("retry"), every request answered
\* without error
NextSave ==
    \/ LoadTables
    \/ \E tableId \in Targets(tables) : AddSeat(tableId)
    \/ \E tableId \in Targets(tables) : RemoveSeat(tableId)
    \/ \E tableId \in Targets(tables) : \E seatId \in SeatTargets(tables, tableId) :
          \E args \in AssignArgs : AssignSeat(tableId, seatId, args)
    \/ \E n \in DOMAIN writes : Proceeds(n)

SpecSave ==
    /\ InitStorage({"retry"}, {TwoTables}, {<<>>},
                   [Unused EXCEPT !.failures = MaxFailures, !.loadErrors = MaxLoadErrors])
    /\ [][NextSave]_vars

\* one save at a time ("retry"), requests failing
NextRetry ==
    \/ LoadTables
    \/ \E tableId \in Targets(tables) : AddSeat(tableId)
    \/ \E tableId \in Targets(tables) : \E seatId \in SeatTargets(tables, tableId) :
          \E args \in AssignArgs : AssignSeat(tableId, seatId, args)
    \/ StatusTimeout
    \/ \E n \in DOMAIN writes : Proceeds(n)

SpecRetry ==
    /\ InitStorage({"retry"}, {TwoTables}, {<<>>},
                   [Unused EXCEPT !.loadErrors = MaxLoadErrors,
                                  !.seatOps = MaxSeatOps - 1,
                                  !.edits = MaxEdits - 1])
    /\ [][NextRetry]_vars

\* the assignment form: one submit or Clear per run, every request answered
NextSubmit ==
    \/ LoadTables
    \/ \E tableId \in Targets(tables) \ {NoSuchTable} :
          \E seatId \in SeatTargets(tables, tableId) :
             \/ \E form \in Forms : HandleSubmit(tableId, seatId, form)
             \/ AssignSeat(tableId, seatId, <<EmptyStr, EmptyStr, EmptyStr>>)
    \/ \E n \in DOMAIN writes : Proceeds(n)

SpecSubmit ==
    /\ InitStorage(Revisions, {TwoTables}, {<<>>},
                   [Unused EXCEPT !.failures = MaxFailures,
                                  !.loadErrors = MaxLoadErrors,
                                  !.edits = MaxEdits - 1])
    /\ [][NextSubmit]_vars

\* page load with and without a cached layout, the read of the store may fail
NextLoad ==
    \/ LoadTables
    \/ StatusTimeout
    \/ \E n \in DOMAIN writes : Proceeds(n)

SpecLoad ==
    /\ InitStorage({"pages", "retry"}, {TwoTables, EmptyStore}, {<<>>, <<OtherLayout>>},
                   [Unused EXCEPT !.failures = MaxFailures])
    /\ [][NextLoad]_vars

\* one import per run, every request answered without error
NextImport ==
    \/ LoadTables
    \/ ImportLayout
    \/ StatusTimeout
    \/ \E n \in DOMAIN writes : Proceeds(n)

SpecImport ==
    /\ InitStorage(Revisions, {TwoTables}, {<<>>},
                   [Unused EXCEPT !.failures = MaxFailures, !.loadErrors = MaxLoadErrors,
                                  !.files = MaxFiles - 1])
    /\ [][NextImport]_vars

\* saveTablesToDatabase and the remote delete of deleteTable ("pages", "retry"),
\* requests failing, while loadTables has not resolved
NextBulk ==
    \/ ImportLayout
    \/ \E tableId \in Targets(tables) : DeleteTable(tableId)
    \/ StatusTimeout
    \/ \E n \in DOMAIN writes : Proceeds(n)

SpecBulk ==
    /\ InitStorage({"pages", "retry"}, {TwoTables}, {<<>>},
                   [Unused EXCEPT !.loadErrors = MaxLoadErrors, !.files = MaxFiles - 1])
    /\ [][NextBulk]_vars

\* the check-in view
NextCheckIn ==
    \/ \E guest \in Guests : HandleCheckIn(guest)
    \/ \E i \in DOMAIN calls : CheckInInsert(i)
    \/ \E guest \in Guests : HandleCheckOut(guest)
    \/ \E i \in DOMAIN calls : CheckOutUpdate(i)
    \/ \E i \in DOMAIN calls : LoadCheckins(i)

SpecCheckIn == InitCheckIn /\ [][NextCheckIn]_vars

-----------------------------------------------------------------------------
(* Claims about seat counts and angles *)

GuestFields(seat) == <<seat.guestName, seat.tag, seat.note>>

\* C1: in every reachable state every in-memory table has at least 1 and at most
\* 14 seats.
C1_SeatCountWithinLimits ==
    \A k \in DOMAIN tables : Len(tables[k].seats) \in 1..MaxSeats

\* C2: addSeat on a table that has 14 seats and removeSeat on a table that has 1
\* seat change no table at all.
C2_NoOpAtLimits ==
    [][ /\ (event'.op = "addSeat" /\ SeatCount(tables, event'.tableId) = MaxSeats)
            => tables' = tables
        /\ (event'.op = "removeSeat" /\ SeatCount(tables, event'.tableId) = 1)
            => tables' = tables ]_vars

\* C3: when addSeat or removeSeat changes a table from N to M seats, both within
\* 1..14, seat i of the table sits at 360 * i / M afterwards; addSeat appends an
\* empty seat and removeSeat drops the last one, the other seats keep their
\* guest fields at their index.
C3_EvenAnglesAfterChange ==
    [][ event'.op \in {"addSeat", "removeSeat"} =>
        \A k \in DOMAIN tables :
            LET before == tables[k].seats
                after == tables'[k].seats
                N == Len(before)
                M == Len(after)
            IN  (tables[k].id = event'.tableId /\ N # M /\ N \in 1..MaxSeats
                                                /\ M \in 1..MaxSeats) =>
                /\ \A i \in 1..M : after[i].angle[1] * M = 360 * (i - 1) * after[i].angle[2]
                /\ M = IF event'.op = "addSeat" THEN N + 1 ELSE N - 1
                /\ \A i \in 1..(IF N < M THEN N ELSE M) :
                      /\ GuestFields(after[i]) = GuestFields(before[i])
                      /\ after[i].id = before[i].id
                /\ M > N => GuestFields(after[M]) = <<Undef, Undef, Undef>> ]_vars

\* ten seats, one added, two removed: nine seats at 0, 40, ..., 320
C3_Witness ==
    /\ event.op = "removeSeat"
    /\ event.with = <<10>>
    /\ used.seatOps = 3
    /\ \E k \in DOMAIN tables :
          /\ tables[k].id = event.tableId
          /\ Len(tables[k].seats) = 9
          /\ \A i \in 1..9 : tables[k].seats[i].angle = <<40 * (i - 1), 1>>

-----------------------------------------------------------------------------
(* Claims about dragging *)

\* stored is the point of [lo, hi] nearest to target
Nearest(lo, hi, target, stored) ==
    /\ RLe(Int2R(lo), stored)
    /\ RLe(stored, Int2R(hi))
    /\ (RLe(Int2R(lo), target) /\ RLe(target, Int2R(hi))) => stored = target
    /\ RLt(target, Int2R(lo)) => stored = Int2R(lo)
    /\ RLt(Int2R(hi), target) => stored = Int2R(hi)

\* C4: while a table is dragged, a pointer move stores for that table the target
\* (pointer / zoom minus the grab offset) clamped to x in [50, 1950] and y in
\* [50, 1350] on the 2000x1400 canvas ([50, 1150] and [50, 750] on the 1200x800
\* canvas of the pages snapshot): exact inside the bounds, the nearest in-bounds
\* point outside, and every other table and every other field stays as it was.
C4_DragMoveClamps ==
    [][ (event'.op = "mouseMove" /\ draggedTable # Null) =>
        LET p == event'.with
            targetX == RSub(OverZoom(p[1], zoom), dragOffset.x)
            targetY == RSub(OverZoom(p[2], zoom), dragOffset.y)
            hiX == IF rev = "retry" THEN 1950 ELSE 1150
            hiY == IF rev = "retry" THEN 1350 ELSE 750
        IN  /\ DOMAIN tables' = DOMAIN tables
            /\ \A k \in DOMAIN tables :
                  IF tables[k].id = draggedTable
                  THEN /\ Nearest(50, hiX, targetX, tables'[k].x)
                       /\ Nearest(50, hiY, targetY, tables'[k].y)
                       /\ tables'[k] = [tables[k] EXCEPT !.x = tables'[k].x,
                                                         !.y = tables'[k].y]
                  ELSE tables'[k] = tables[k] ]_vars

\* a move far to the right of the 2000x1400 canvas: x stored as 1950, y exact
C4_Witness ==
    /\ rev = "retry"
    /\ event.op = "mouseMove"
    /\ event.with = <<2500, -30>>
    /\ \E k \in DOMAIN tables :
          /\ tables[k].id = event.tableId
          /\ tables[k].x = Int2R(1950)
          /\ RLt(Int2R(50), tables[k].y)
          /\ RLt(tables[k].y, Int2R(1350))
          /\ tables[k].y = RSub(OverZoom(-30, zoom), dragOffset.y)

-----------------------------------------------------------------------------
(* Claims about the check-in view *)

SameGuest(checkin, guestName) ==
    trim(toLowerCase(checkin.guest_name)) = trim(toLowerCase(guestName))

\* the first row of the guest in the loaded log, which is ordered latest first,
\* has no check-out time
MostRecentRowOpen(rows, guestName) ==
    \E k \in DOMAIN rows :
        /\ SameGuest(rows[k], guestName)
        /\ \A j \in 1..(k - 1) : ~SameGuest(rows[j], guestName)
        /\ rows[k].checked_out_at = Null

\* C5: a guest is reported checked in exactly when the most recent row of the
\* loaded check-in log for that name (lower-cased, trimmed) has no check-out
\* time.
C5_CheckedInIffMostRecentOpen ==
    \A guest \in Guests :
        isGuestCheckedIn(checkins, guest.name) <=> MostRecentRowOpen(checkins, guest.name)

\* C6: a check-in of a guest without a table is rejected with the toast "No Table
\* Assigned"; no insert is issued and no row is stored.
C6_NoTableRejected ==
    [][ (event'.op = "handleCheckIn" /\ Falsy(event'.with.tableNumber)) =>
        /\ toast' = "No Table Assigned"
        /\ calls' = calls
        /\ guest_checkins' = guest_checkins ]_vars

\* C7: the check-in log never holds two open rows for one guest name.
C7_AtMostOneOpenRow ==
    \A guest \in Guests :
        Cardinality({k \in DOMAIN guest_checkins :
                        OpenRowOf(guest_checkins[k], guest.name)}) <= 1

\* C8: when handleCheckOut of part_003 has updated its row and the reload of the
\* log has come back, the guest is reported as not checked in.
C8_CheckOutClears ==
    [][ (/\ checkinRev = "part_003"
         /\ event'.op = "loadCheckins"
         /\ event'.with[1].op = "checkOut"
         /\ event'.with[2] = "rows") =>
        ~isGuestCheckedIn(checkins', event'.with[1].guest.name) ]_vars

-----------------------------------------------------------------------------
(* Claims about export, import and search *)

\* C9: importing the file that exportLayout wrote reproduces the exported tables:
\* the same tables in the same order, each with equal id, number, label, x, y and
\* the same seats with equal angle, guest name, tag and note.
C9_ExportImportRoundTrip ==
    [][ event'.op = "importLayout" => tables' = exported[1].of ]_vars

\* two characters that differ at most in case
SameLetter(a, b) ==
    \/ a = b
    \/ \E k \in DOMAIN UpperCase : {a, b} = {UpperCase[k], LowerCase[k]}

\* the table has a seat whose guest name holds the query at some offset, case
\* ignored
TableHasGuestLike(table, query) ==
    \E i \in DOMAIN table.seats :
        /\ table.seats[i].guestName # Undef
        /\ \E offset \in 0..(Len(table.seats[i].guestName) - Len(query)) :
              \A j \in DOMAIN query :
                  SameLetter(table.seats[i].guestName[offset + j], query[j])

\* C10: searchGuest(query) selects the first table that has a seat whose guest
\* name contains the query, case ignored; when no seat matches, the selection
\* stays; no table changes.
C10_SearchSelectsFirstMatch ==
    [][ event'.op = "searchGuest" =>
        LET query == event'.with
            hits == {k \in DOMAIN tables : TableHasGuestLike(tables[k], query)}
        IN  /\ tables' = tables
            /\ IF hits = {} THEN selectedTable' = selectedTable
               ELSE \E k \in hits :
                       /\ \A j \in hits : k <= j
                       /\ selectedTable' = tables[k].id ]_vars

\* "jAne" finds JANET at the second table, which becomes the selected one
C10_Witness ==
    /\ event.op = "searchGuest"
    /\ event.with = <<"j", "A", "n", "e">>
    /\ Len(tables) >= 2
    /\ ~TableHasGuestLike(tables[1], event.with)
    /\ TableHasGuestLike(tables[2], event.with)
    /\ selectedTable = tables[2].id

-----------------------------------------------------------------------------
(* The debounced save *)

\* the table whose save the debounce timer holds, Null when none is pending
PendingSaveOf == IF saveTimeout = <<>> \/ saveTimeout[1].fn # "saveTable" THEN Null
                 ELSE saveTimeout[1].batch[1].id

\* C11: when an edit of table T (a drag end, addSeat, removeSeat, assignSeat)
\* arrives while the debounce timer holds a save of T, that pending save is
\* cancelled or replaced by one of T as edited: no timer is left that would
\* write the older snapshot of T after the edit's own write
C11_PendingSaveSuperseded ==
    [][(/\ PendingSaveOf # Null
        /\ \/ /\ event'.op \in {"addSeat", "removeSeat", "assignSeat"}
              /\ event'.tableId = PendingSaveOf
           \/ /\ event'.op = "mouseUp"
              /\ event'.tableId = PendingSaveOf)
       => \/ saveTimeout' = <<>>
          \/ saveTimeout'[1].batch[1] = tables'[FindTable(tables', PendingSaveOf)]]_vars

\* C12: when the drag of a table B ends while the debounce timer holds the save
\* of another table A, the save of A stays pending
C12_OtherTableStaysPending ==
    [][(/\ PendingSaveOf # Null
        /\ event'.op = "mouseUp"
        /\ event'.tableId # Null
        /\ event'.tableId # PendingSaveOf)
       => \E k \in DOMAIN saveTimeout' : saveTimeout'[k].batch[1].id = PendingSaveOf]_vars

-----------------------------------------------------------------------------
(* saveTableToDatabase *)

\* C13: once no call of a save function is under way, no two rows of
\* seat_assignments have the same table_configuration_id and seat_index
C13_OneRowPerSeat ==
    writes = <<>> =>
        \A a, b \in DOMAIN store.seat_assignments :
            (/\ store.seat_assignments[a].table_configuration_id =
                   store.seat_assignments[b].table_configuration_id
             /\ store.seat_assignments[a].seat_index = store.seat_assignments[b].seat_index)
            => a = b

-----------------------------------------------------------------------------
(* saveTablesToDatabase, deleteTable, importLayout *)

SuccessToasts == {"Layout imported", "Layout Imported", "Layout Saved", "Table deleted",
                  "Table added", "Seat assigned", "Seat assigned and saved"}
ErrorToasts == {"Save Failed", "Save Error", "Failed to save seat assignment"}

\* C14: when a request of a bulk save (the clearing delete, an insert) or the
\* remote delete of deleteTable has failed, the operation ends with the save
\* status 'error' or an error toast, and with neither the status 'saved' nor a
\* success toast
C14_FailureIsSurfaced ==
    [][(/\ event'.op \in {"saveTables", "remoteDelete"}
        /\ event'.with[5] # "no"
        /\ event'.with[6])
       => /\ \/ saveStatus' = "error"
             \/ \E k \in DOMAIN notice' : notice'[k] \in ErrorToasts
          /\ saveStatus' # "saved"
          /\ \A k \in DOMAIN notice' : notice'[k] \notin SuccessToasts]_vars

\* the store holds exactly the rows this layout is saved as
StoredAs(st, ts) ==
    /\ Len(st.table_configurations) = Len(ts)
    /\ \A k \in DOMAIN ts : \E c \in DOMAIN st.table_configurations :
          LET row == st.table_configurations[c]
              seats == SeatsOf(st, row.id)
          IN  /\ ts[k].number.k = "int"
              /\ row.table_number = ts[k].number.v
              /\ row.label = ts[k].label
              /\ row.x = ts[k].x
              /\ row.y = ts[k].y
              /\ row.seat_count = Len(ts[k].seats)
              /\ \A i \in DOMAIN ts[k].seats :
                    HasData(ts[k].seats[i]) =>
                        \E s \in DOMAIN seats : seats[s].seat_index = i - 1
              /\ \A s \in DOMAIN seats :
                    /\ seats[s].seat_index + 1 \in DOMAIN ts[k].seats
                    /\ seats[s].guest_name = OrNull(ts[k].seats[seats[s].seat_index + 1].guestName)
                    /\ seats[s].tag = OrNull(ts[k].seats[seats[s].seat_index + 1].tag)
                    /\ seats[s].note = OrNull(ts[k].seats[seats[s].seat_index + 1].note)

\* every table of the layout has its position
Complete(ts) == \A k \in DOMAIN ts : ts[k].x # Undef /\ ts[k].y # Undef

\* C16: when the save that importLayout started for an imported layout returns
\* with every request answered, the store holds the rows of that layout
C16_ImportIsPersisted ==
    [][(/\ event'.op = "saveTables"
        /\ event'.with[1] = "importLayout"
        /\ event'.with[5] = "saved"
        /\ ~event'.with[6]
        /\ Complete(event'.with[7]))
       => StoredAs(store', event'.with[7])]_vars

TableKeys == {"id", "number", "label", "x", "y", "seats"}
SeatKeys == {"id", "angle"}

\* the file holds a list of Table records
IsLayout(file) ==
    /\ file.wellFormed
    /\ \A k \in DOMAIN file.value :
          /\ TableKeys \subseteq DOMAIN file.value[k]
          /\ \A i \in DOMAIN file.value[k].seats :
                SeatKeys \subseteq DOMAIN file.value[k].seats[i]

\* C17: importing a file that is not a layout shows the invalid-file-format
\* error, leaves the tables in memory as they were and sends nothing to the store
C17_MalformedImportRejected ==
    [][(/\ event'.op = "importLayout"
        /\ ~IsLayout(event'.with[1]))
       => /\ notice' \in {<<"Invalid file format">>, <<"Import Failed">>}
          /\ tables' = tables
          /\ writes' = writes
          /\ store' = store]_vars

\* the calls of saveTableToDatabase under way
TableWrites(ws) == {k \in DOMAIN ws : ws[k].fn = "saveTable"}

\* C15: a call of saveTableToDatabase never goes beyond its third attempt and
\* waits 200 * k ms after its failed attempt k < 3; a step of the call leaves the
\* tables in memory as they are; the call returns at the first attempt whose
\* requests all succeed, with status 'saved'; it returns failure only from a
\* failed third attempt, with status 'error'; a failed request of an earlier
\* attempt sends the call into the wait
C15_ThreeAttemptsLinearBackoff ==
    [][/\ \A k \in TableWrites(writes') :
             /\ writes'[k].attempt \in 1..Retries
             /\ writes'[k].pc = "wait" =>
                   /\ writes'[k].attempt < Retries
                   /\ writes'[k].delay = 200 * writes'[k].attempt
       /\ event'.op = "saveTable" =>
             /\ tables' = tables
             /\ event'.with[5] = "saved" =>
                   /\ ~event'.with[6]
                   /\ Len(writes') = Len(writes) - 1
                   /\ saveStatus' = "saved"
             /\ event'.with[5] = "failed" =>
                   /\ event'.with[3] = Retries
                   /\ event'.with[6]
                   /\ Len(writes') = Len(writes) - 1
                   /\ saveStatus' = "error"
             /\ (event'.with[4] /\ event'.with[3] < Retries) =>
                   /\ event'.with[5] = "no"
                   /\ Cardinality({k \in TableWrites(writes') :
                                     /\ writes'[k].pc = "wait"
                                     /\ writes'[k].attempt = event'.with[3]}) >= 1]_vars

\* the third attempt of an edited table's write has failed and the edit is kept
C15_Witness ==
    /\ event.op = "saveTable"
    /\ event.with[5] = "failed"
    /\ event.with[3] = Retries
    /\ saveStatus = "error"
    /\ \E k \in DOMAIN tables : Len(tables[k].seats) = 4

\* a write has succeeded at its second attempt, after one wait
C15_WitnessRetried ==
    /\ event.op = "saveTable"
    /\ event.with[5] = "saved"
    /\ event.with[3] = 2

\* C18: pressing Assign Seat with a name that is empty after trimming changes no
\* table in memory (the seat keeps guest name, tag and note) and issues no write
C18_EmptyNameRejected ==
    [][(event'.op = "handleSubmit" /\ event'.with[2][1] = EmptyStr)
       => (tables' = tables /\ writes' = writes /\ store' = store)]_vars

\* C19: when loadTables cannot read the store and a cached layout exists, the
\* tables in memory become the cached layout and no default layout is written
C19_CacheBeforeDefault ==
    [][(event'.op = "loadTables" /\ event'.with[1] # "data" /\ localStorage # <<>>)
       => (tables' = parse(localStorage[1]) /\ writes' = writes)]_vars

\* C20: the pointer-down moves no table and starts no drag; a drag starts only
\* at a pointer move farther than the threshold from the recorded start, for the
\* table recorded at the pointer-down; a move made before the drag has started
\* moves no table
C20_PointerDownMovesNothing ==
    [][/\ event'.op = "mouseDown" => (tables' = tables /\ draggedTable' = Null)
       /\ (draggedTable = Null /\ draggedTable' # Null) =>
             /\ event'.op = "mouseMove"
             /\ pendingDragTable # Null
             /\ dragStartPosition # Null
             /\ draggedTable' = pendingDragTable
             /\ MovedPastThreshold(event'.with, [x |-> dragStartPosition[1],
                                                 y |-> dragStartPosition[2]])
       /\ (event'.op = "mouseMove" /\ draggedTable = Null) => tables' = tables]_vars

\* C21: a pointer-up that ends a press without a drag (a table is pending, none
\* is dragged) leaves the controller idle, the pressed table selected, every
\* table where it was, and neither sets the debounce timer nor calls a save
C21_ClickIsSelection ==
    [][(event'.op = "mouseUp" /\ draggedTable = Null /\ pendingDragTable # Null)
       => /\ draggedTable' = Null
          /\ pendingDragTable' = Null
          /\ dragStartPosition' = Null
          /\ selectedTable' = pendingDragTable
          /\ tables' = tables
          /\ saveTimeout' = saveTimeout
          /\ writes' = writes]_vars

\* a table was pressed and released after a move within the threshold; nothing
\* is scheduled or in flight
C21_Witness ==
    /\ event.op = "mouseUp"
    /\ event.tableId = Null
    /\ used.moves > MaxMoves - 2
    /\ selectedTable # Null
    /\ pendingDragTable = Null
    /\ saveTimeout = <<>>
    /\ writes = <<>>

\* C22: a pointer move calls no save and sets no timer; the pointer-up that ends
\* a drag calls no save at once and leaves one debounce timer, set for the
\* dragged table as it is then
C22_SaveAfterGesture ==
    [][/\ event'.op = "mouseMove" => (writes' = writes /\ saveTimeout' = saveTimeout)
       /\ (event'.op = "mouseUp" /\ FindTable(tables, draggedTable) # 0) =>
             /\ writes' = writes
             /\ saveTimeout' = <<[fn |-> "saveTable",
                                  batch |-> <<tables[FindTable(tables, draggedTable)]>>]>>]_vars

\* table numbers and table ids are pairwise distinct
DistinctTables(ts) ==
    \A i, j \in DOMAIN ts :
        i # j => (ts[i].number # ts[j].number /\ ts[i].id # ts[j].id)

\* C23: addTable appends one table and leaves the others as they are; the new
\* table's number is 1 on an empty layout and otherwise the greatest number plus
\* one, it has 10 seats at the angles 36 * i, and a layout whose numbers and ids
\* were pairwise distinct stays so
C23_AddTableNumbersUnused ==
    [][event'.op = "addTable" =>
          LET new == tables'[Len(tables')]
          IN  /\ Len(tables') = Len(tables) + 1
              /\ SubSeq(tables', 1, Len(tables)) = tables
              /\ new.number.k = "int"
              /\ tables = <<>> => new.number = Num(1)
              /\ \A k \in DOMAIN tables :
                    /\ tables[k].number.k = "int" => new.number.v > tables[k].number.v
                    /\ tables[k].id # new.id
              /\ tables # <<>> =>
                    \E k \in DOMAIN tables : new.number = PlusOne(tables[k].number)
              /\ Len(new.seats) = DefaultSeatCount
              /\ \A i \in DOMAIN new.seats : new.seats[i].angle = Frac(36 * (i - 1), 1)
              /\ DistinctTables(tables) => DistinctTables(tables')]_vars

\* the table tableId is gone from memory, nothing selected refers to it and
\* the other tables are as they were in before
GoneFromMemory(tableId, before, after, table, seat) ==
    /\ \A k \in DOMAIN after : after[k].id # tableId
    /\ after = SelectSeq(before, LAMBDA t : t.id # tableId)
    /\ table # tableId
    /\ seat = Null \/ seat[1] # tableId

\* the store after holds no row of the table numbered number and no seat row of
\* the rows the store before held for that number
GoneFromStore(number, before, after) ==
    /\ \A k \in DOMAIN after.table_configurations :
          after.table_configurations[k].table_number # number
    /\ \A k \in DOMAIN before.table_configurations :
          before.table_configurations[k].table_number = number =>
             \A j \in DOMAIN after.seat_assignments :
                after.seat_assignments[j].table_configuration_id
                   # before.table_configurations[k].id

\* C24: when deleteTable(id) has run (for "pages" and "retry": when its awaited
\* delete has returned) no table in memory has the id, neither selection refers
\* to it and the other tables are unchanged; when the remote delete has
\* returned the store holds no table row and no seat row of the table's number
C24_DeleteRemovesEverywhere ==
    [][/\ (event'.op = "deleteTable" /\ rev = "later") =>
             GoneFromMemory(event'.tableId, tables, tables', selectedTable', selectedSeat')
       /\ (event'.op = "remoteDelete" /\ event'.with[5] # "no") =>
             /\ rev # "later" =>
                   GoneFromMemory(event'.tableId, tables, tables', selectedTable',
                                  selectedSeat')
             /\ event'.tableId[2].k = "int" =>
                   GoneFromStore(event'.tableId[2].v, store, store')]_vars

\* the delete of a table that had a seat row has returned and the other table
\* is still stored
C24_Witness ==
    /\ event.op = "remoteDelete"
    /\ event.with[5] # "no"
    /\ event.tableId = TableIdOf(Num(1))
    /\ Len(tables) = 1
    /\ Len(store.table_configurations) = 1
    /\ store.seat_assignments = <<>>

\* the field holds the argument; an empty or absent argument leaves it empty
Holds(field, arg) ==
    \/ field = arg
    \/ arg \in {EmptyStr, Undef} /\ field \in {EmptyStr, Undef}

\* the seats that differ between two layouts of the same shape
ChangedSeats(before, after) ==
    {<<k, i>> \in UNION {{k} \X DOMAIN before[k].seats : k \in DOMAIN before} :
        after[k].seats[i] # before[k].seats[i]}

\* C25: assignSeat leaves every table but the one named as it is; in that table
\* label, number, position and seat count stay, every seat but the one named
\* stays, and the seat named keeps id and angle and holds the guest name, tag
\* and note given (nothing for an empty one); at most one seat changes
C25_AssignSeatFrame ==
    [][event'.op = "assignSeat" =>
          /\ Len(tables') = Len(tables)
          /\ \A k \in DOMAIN tables :
                /\ [tables'[k] EXCEPT !.seats = <<>>] = [tables[k] EXCEPT !.seats = <<>>]
                /\ Len(tables'[k].seats) = Len(tables[k].seats)
                /\ \A i \in DOMAIN tables[k].seats :
                      LET seat == tables[k].seats[i]
                          new == tables'[k].seats[i]
                      IN  IF tables[k].id = event'.tableId /\ seat.id = event'.with[1]
                          THEN /\ new.id = seat.id
                               /\ new.angle = seat.angle
                               /\ Holds(new.guestName, event'.with[2][1])
                               /\ Holds(new.tag, event'.with[2][2])
                               /\ Holds(new.note, event'.with[2][3])
                          ELSE new = seat
          /\ Cardinality(ChangedSeats(tables, tables')) <= 1]_vars

\* the seats of a layout that hold a guest name, as <<table index, seat index>>
SeatedAt(ts) ==
    {<<k, i>> \in UNION {{k} \X DOMAIN ts[k].seats : k \in DOMAIN ts} :
        ts[k].seats[i].guestName \notin {Undef, Null, EmptyStr}}

\* no guest name, compared trimmed and without case, is held by two seats
NoDuplicateGuests(ts) ==
    \A a, b \in SeatedAt(ts) :
        a # b => trim(toLowerCase(ts[a[1]].seats[a[2]].guestName))
                   # trim(toLowerCase(ts[b[1]].seats[b[2]].guestName))

\* C26: an assignment made with the form to a layout in which no guest name
\* is held by two seats leaves such a layout (a name held by another seat is
\* not committed)
C26_FormKeepsGuestsUnique ==
    [][(event'.op = "handleSubmit" /\ NoDuplicateGuests(tables))
       => NoDuplicateGuests(tables')]_vars

\* two layouts agree in their tables' numbers, labels and positions and in
\* the guest name, tag and note of every seat
SameLayout(a, b) ==
    /\ Len(a) = Len(b)
    /\ \A k \in DOMAIN a \cap DOMAIN b :
          /\ a[k].number = b[k].number
          /\ a[k].label = b[k].label
          /\ a[k].x = b[k].x
          /\ a[k].y = b[k].y
          /\ Len(a[k].seats) = Len(b[k].seats)
          /\ \A i \in DOMAIN a[k].seats \cap DOMAIN b[k].seats :
                /\ OrNull(a[k].seats[i].guestName) = OrNull(b[k].seats[i].guestName)
                /\ OrNull(a[k].seats[i].tag) = OrNull(b[k].seats[i].tag)
                /\ OrNull(a[k].seats[i].note) = OrNull(b[k].seats[i].note)

\* the layout loadTables would build from the store
Reloaded == loadedTables(SelectJoined(store))

\* C27: once the layout has been loaded and no write is in flight or waiting
\* for its debounce timer, loading the layout from the store gives the layout
\* in memory
C27_ReloadReproducesLayout ==
    (loaded /\ writes = <<>> /\ saveTimeout = <<>>) => SameLayout(Reloaded, tables)

\* C28: once no write is in flight or waiting for its debounce timer, every
\* table record of the store belongs to a table of the layout in memory (a
\* deleted table has no record)
C28_DeletedTableStaysDeleted ==
    (loaded /\ writes = <<>> /\ saveTimeout = <<>>)
    => \A c \in DOMAIN store.table_configurations :
          \E k \in DOMAIN tables :
             tables[k].number = Num(store.table_configurations[c].table_number)

\* C29: a load deletes no record of the store: the load step itself leaves
\* the store as it is, and the clearing delete of the default-layout save a
\* load has started (which a load that could read an empty store starts)
\* finds no record to remove
C29_FailedLoadKeepsStore ==
    [][/\ event'.op = "loadTables" => store' = store
       /\ (/\ event'.op = "saveTables"
           /\ event'.with[1] = "initializeDefaultTables"
           /\ event'.with[2] = "clear") => store' = store]_vars

\* C30: while a call of saveTableToDatabase is in flight the save status is
\* 'saving', and pendingSaves holds exactly the tables that have such a call
\* in flight
C30_IndicatorFollowsWrites ==
    /\ TableWrites(writes) # {} => saveStatus = "saving"
    /\ pendingSaves = {TableIdOf(writes[n].batch[1].number) : n \in TableWrites(writes)}


=============================================================================
